---- MODULE Spec2Model ----
(***************************************************************************)
(* Verification model of the camper Forest client                          *)
(* (src/src/client/forestClient.ts): the response normalizer, the two      *)
(* node caches, the HTTP request executor, the reconnecting event-stream   *)
(* subscription and the NotesPane event handler that reconciles the caches *)
(* with pushed events.                                                     *)
(***************************************************************************)
EXTENDS Integers, Sequences, FiniteSets, TLC

(***************************************************************************)
(* JSON values.  Every value is a record [t, v]: t is the JavaScript type  *)
(* tag, v the payload (0 where the tag says everything).  "inf" is a       *)
(* non-finite number (JSON.parse("1e999")), "undef" is undefined.          *)
(***************************************************************************)
Undef == [t |-> "undef", v |-> 0]
Null == [t |-> "null", v |-> 0]
Inf == [t |-> "inf", v |-> 0]
Num(n) == [t |-> "num", v |-> n]
Str(s) == [t |-> "str", v |-> s]
Bool(b) == [t |-> "bool", v |-> b]
Arr(s) == [t |-> "arr", v |-> s]
Obj(f) == [t |-> "obj", v |-> f]

\* An object literal from a set of <<key, value>> pairs (absent keys are left out).
ObjOf(pairs) ==
  Obj([k \in {p[1] : p \in pairs} |-> (CHOOSE p \in pairs : p[1] = k)[2]])

EmptyObj == ObjOf({})

\* value.key, for a value that is not null/undefined (undefined on a missing key)
Get(o, k) == IF o.t = "obj" /\ k \in DOMAIN o.v THEN o.v[k] ELSE Undef

\* 'key' in value (value is an object or an array)
HasKey(o, k) == o.t = "obj" /\ k \in DOMAIN o.v

\* a ?? b
Nullish(a, b) == IF a.t \in {"undef", "null"} THEN b ELSE a

Nullish3(a, b, c) == Nullish(Nullish(a, b), c)

Nullish4(a, b, c, d) == Nullish(Nullish3(a, b, c), d)

\* JavaScript truthiness
Truthy(x) ==
  CASE x.t \in {"undef", "null"} -> FALSE
    [] x.t = "bool" -> x.v
    [] x.t = "num" -> x.v # 0
    [] x.t = "str" -> x.v # ""
    [] OTHER -> TRUE

\* a || b
OrElse(a, b) == IF Truthy(a) THEN a ELSE b

\* typeof x === 'object' (null included, as in JavaScript)
TypeofObject(x) == x.t \in {"obj", "arr", "null"}

\* x && typeof x === 'object'
IsObjectLike(x) == x.t \in {"obj", "arr"}

\* array.length is an own property of arrays; other keys of an array are undefined
GetAny(o, k) ==
  IF o.t = "arr" /\ k = "length" THEN Num(Len(o.v)) ELSE Get(o, k)

\* String(x) for the values an Error message is built from
NumText(n) ==
  CASE n = 0 -> "0" [] n = 1 -> "1" [] n = 2 -> "2" [] n = 3 -> "3"
    [] n = 4 -> "4" [] n = 5 -> "5" [] n = 6 -> "6" [] n = 7 -> "7"
    [] OTHER -> "<number>"

ToText(x) ==
  CASE x.t = "str" -> x.v
    [] x.t = "num" -> NumText(x.v)
    [] x.t = "inf" -> "Infinity"
    [] x.t = "bool" -> IF x.v THEN "true" ELSE "false"
    [] x.t = "null" -> "null"
    [] x.t = "undef" -> "undefined"
    [] x.t = "arr" -> "<array>"
    [] OTHER -> "[object Object]"

(***************************************************************************)
(* Coercion helpers of the normalizer.                                     *)
(***************************************************************************)
coerceString(value) ==
  CASE value.t = "str" -> value
    [] value.t = "num" -> Str(NumText(value.v))
    [] OTHER -> Undef

\* mutant: a number counts only when it is truthy
coerceNumber_Truthy(value) == IF value.t = "num" /\ value.v # 0 THEN value ELSE Undef

coerceNumber(value) == IF value.t = "num" THEN value ELSE Undef

toRecord(input) == IF IsObjectLike(input) THEN input ELSE Undef

(***************************************************************************)
(* Envelope unwrapping.  The result is [ok, value, message]: ok = FALSE    *)
(* stands for `throw new Error(message)`.                                  *)
(***************************************************************************)
GenericErrorMessage == "Forest API responded with an error."

Returned(x) == [ok |-> TRUE, value |-> x, message |-> ""]
Thrown(m) == [ok |-> FALSE, value |-> Undef, message |-> m]

\* mutant: any falsy `success` counts as a failure
unwrap_FalsySuccess(payload) ==
  IF IsObjectLike(payload) /\ HasKey(payload, "data")
  THEN IF ~Truthy(Get(payload, "success"))
       THEN IF Get(payload, "error").t = "str"
            THEN Thrown(Get(payload, "error").v)
            ELSE Thrown(ToText(OrElse(Get(payload, "message"), Str(GenericErrorMessage))))
       ELSE Returned(Get(payload, "data"))
  ELSE Returned(payload)

unwrap(payload) ==
  IF IsObjectLike(payload) /\ HasKey(payload, "data")
  THEN IF Get(payload, "success") = Bool(FALSE)
       THEN IF Get(payload, "error").t = "str"
            THEN Thrown(Get(payload, "error").v)
            ELSE Thrown(ToText(OrElse(Get(payload, "message"), Str(GenericErrorMessage))))
       ELSE Returned(Get(payload, "data"))
  ELSE Returned(payload)

(***************************************************************************)
(* Health normalization.                                                   *)
(***************************************************************************)
\* text.toLowerCase(), on the texts of the model
toLowerCase(text) ==
  CASE text \in {"Healthy", "HEALTHY"} -> "healthy"
    [] text \in {"OK", "Ok"} -> "ok"
    [] text = "Degraded" -> "degraded"
    [] OTHER -> text

\* payload.meta && typeof payload.meta === 'object' ? payload.meta : undefined
ObjectOrUndef(x) == IF IsObjectLike(x) THEN x ELSE Undef

\* mutant: the status is compared as it was sent
normalizeHealth_CaseSensitive(source) ==
  LET payload == IF IsObjectLike(source) THEN source ELSE EmptyObj
      status == coerceString(Get(payload, "status"))
      okValue == IF Get(payload, "ok").t = "bool" THEN Get(payload, "ok") ELSE Undef
      meta == ObjectOrUndef(Get(payload, "meta"))
      database == ObjectOrUndef(Get(payload, "database"))
  IN  [ok |-> Nullish(okValue,
                      IF Truthy(status)
                      THEN Bool(status.v \in {"healthy", "ok"})
                      ELSE Bool(TRUE)),
       status |-> status,
       version |-> coerceString(Nullish(Get(payload, "version"), Get(meta, "version"))),
       databasePath |->
         coerceString(Nullish(Get(payload, "databasePath"), Get(database, "path"))),
       message |-> coerceString(Nullish3(Get(payload, "message"), Get(payload, "statusMessage"),
                                         Get(meta, "message"))),
       uptimeSeconds |->
         coerceNumber(Nullish3(Get(payload, "uptime"), Get(payload, "uptimeSeconds"),
                               Get(meta, "uptimeSeconds")))]

normalizeHealth(source) ==
  LET payload == IF IsObjectLike(source) THEN source ELSE EmptyObj
      status == coerceString(Get(payload, "status"))
      okValue == IF Get(payload, "ok").t = "bool" THEN Get(payload, "ok") ELSE Undef
      meta == ObjectOrUndef(Get(payload, "meta"))
      database == ObjectOrUndef(Get(payload, "database"))
  IN  [ok |-> Nullish(okValue,
                      IF Truthy(status)
                      THEN Bool(toLowerCase(status.v) \in {"healthy", "ok"})
                      ELSE Bool(TRUE)),
       status |-> status,
       version |-> coerceString(Nullish(Get(payload, "version"), Get(meta, "version"))),
       databasePath |->
         coerceString(Nullish(Get(payload, "databasePath"), Get(database, "path"))),
       message |-> coerceString(Nullish3(Get(payload, "message"), Get(payload, "statusMessage"),
                                         Get(meta, "message"))),
       uptimeSeconds |->
         coerceNumber(Nullish3(Get(payload, "uptime"), Get(payload, "uptimeSeconds"),
                               Get(meta, "uptimeSeconds")))]

(***************************************************************************)
(* Stats normalization.                                                    *)
(***************************************************************************)
\* array.map(f) over the entries that f does not turn into null
MapSeq(F(_), s) == [i \in 1..Len(s) |-> F(s[i])]

Entries(x) == IF x.t = "arr" THEN x.v ELSE <<>>

extractSection(input) ==
  IF ~IsObjectLike(input)
  THEN [total |-> Undef, accepted |-> Undef, suggested |-> Undef]
  ELSE [total |-> coerceNumber(Nullish3(GetAny(input, "total"), GetAny(input, "count"),
                                        GetAny(input, "length"))),
        accepted |-> coerceNumber(Get(input, "accepted")),
        suggested |-> coerceNumber(Nullish(Get(input, "suggested"), Get(input, "pending")))]

\* an entry with an id that is a non-empty string (or a number)
HasId(entry) == IsObjectLike(entry) /\ Truthy(coerceString(Get(entry, "id")))

normalizeRecentNodes(section) ==
  LET record == toRecord(section)
      RecentNode(value) ==
        [id |-> coerceString(Get(value, "id")),
         title |-> coerceString(Get(value, "title")),
         createdAt |-> coerceString(Nullish(Get(value, "createdAt"), Get(value, "updatedAt")))]
  IN  MapSeq(RecentNode, SelectSeq(Entries(Get(record, "recent")), HasId))

HasName(entry) ==
  IsObjectLike(entry) /\ Truthy(coerceString(Nullish(Get(entry, "name"), Get(entry, "tag"))))

\* mutant: the `tag` alias of an entry's name is not read
normalizeTopTags_NameOnly(section) ==
  LET record == toRecord(section)
      TopTag(value) ==
        [name |-> coerceString(Get(value, "name")),
         count |-> coerceNumber(Get(value, "count"))]
      Named(entry) == IsObjectLike(entry) /\ Truthy(coerceString(Get(entry, "name")))
  IN  MapSeq(TopTag, SelectSeq(Entries(Nullish(Get(record, "topTags"), Get(record, "tags"))),
                               Named))

normalizeTopTags(section) ==
  LET record == toRecord(section)
      TopTag(value) ==
        [name |-> coerceString(Nullish(Get(value, "name"), Get(value, "tag"))),
         count |-> coerceNumber(Get(value, "count"))]
  IN  MapSeq(TopTag, SelectSeq(Entries(Nullish(Get(record, "topTags"), Get(record, "tags"))),
                               HasName))

normalizeTopSuggestions(section) ==
  LET record == toRecord(section)
      TopSuggestion(value) ==
        [ref |-> coerceString(Nullish3(Get(value, "ref"), Get(value, "id"), Get(value, "code"))),
         sourceId |-> coerceString(Nullish3(Get(value, "sourceId"), Get(value, "fromId"),
                                            Get(value, "sourceNodeId"))),
         targetId |-> coerceString(Nullish3(Get(value, "targetId"), Get(value, "toId"),
                                            Get(value, "targetNodeId"))),
         score |-> coerceNumber(Nullish3(Get(value, "score"), Get(value, "weight"),
                                         Get(value, "similarity")))]
  IN  MapSeq(TopSuggestion,
             SelectSeq(Entries(Nullish(Get(record, "topSuggestions"), Get(record, "suggestions"))),
                       IsObjectLike))

normalizeHighDegreeNodes(input) ==
  LET HighDegreeNode(value) ==
        [id |-> coerceString(Get(value, "id")),
         title |-> coerceString(Get(value, "title")),
         edgeCount |-> coerceNumber(Nullish(Get(value, "edgeCount"), Get(value, "degree")))]
  IN  MapSeq(HighDegreeNode, SelectSeq(Entries(input), HasId))

\* list.length > 0 ? list.length : undefined
LengthOrUndef(list) == IF Len(list) > 0 THEN Num(Len(list)) ELSE Undef

normalizeStats(source) ==
  LET payload == Nullish(toRecord(source), EmptyObj)
      counts == toRecord(Get(payload, "counts"))
      nodesRaw == Nullish(Get(payload, "nodes"), Get(counts, "nodes"))
      edgesRaw == Nullish(Get(payload, "edges"), Get(counts, "edges"))
      tagsRaw == Nullish(Get(payload, "tags"), Get(counts, "tags"))
      suggestionsRaw ==
        Nullish4(Get(payload, "suggestions"), Get(counts, "suggestions"),
                 Get(payload, "suggestedEdges"), edgesRaw)
      nodesSection == extractSection(nodesRaw)
      edgesSection == extractSection(edgesRaw)
      tagsSection == extractSection(tagsRaw)
      suggestionsSection == extractSection(suggestionsRaw)
      nodesRecord == toRecord(nodesRaw)
      suggestionsRecord == toRecord(suggestionsRaw)
      recentNodes == normalizeRecentNodes(nodesRaw)
      topSuggestions == normalizeTopSuggestions(suggestionsRaw)
  IN  [nodes |-> Nullish4(coerceNumber(Get(payload, "nodes")), coerceNumber(Get(counts, "nodes")),
                          nodesSection.total, nodesSection.accepted),
       edges |-> Nullish4(coerceNumber(Get(payload, "edges")), coerceNumber(Get(counts, "edges")),
                          edgesSection.total, edgesSection.accepted),
       suggestedEdges |->
         Nullish4(coerceNumber(Get(payload, "suggestedEdges")),
                  coerceNumber(Get(counts, "suggested")),
                  suggestionsSection.total, edgesSection.suggested),
       tags |-> Nullish3(coerceNumber(Get(payload, "tags")), coerceNumber(Get(counts, "tags")),
                         tagsSection.total),
       recentCount |->
         Nullish3(coerceNumber(Get(payload, "recentCount")),
                  coerceNumber(Get(nodesRecord, "recentCount")),
                  LengthOrUndef(recentNodes)),
       highScoreSuggestionCount |->
         Nullish3(coerceNumber(Get(payload, "highScoreCount")),
                  coerceNumber(Get(suggestionsRecord, "highScoreCount")),
                  LengthOrUndef(topSuggestions)),
       recentNodes |-> recentNodes,
       topTags |-> normalizeTopTags(tagsRaw),
       topSuggestions |-> topSuggestions,
       highDegreeNodes |-> normalizeHighDegreeNodes(Get(payload, "highDegreeNodes"))]

(***************************************************************************)
(* Node-detail normalization.                                              *)
(***************************************************************************)
\* value.trim().length > 0, for the strings of the model
IsBlank(text) == text \in {"", " "}

\* mutant: the test for `out` comes first
resolveDirection_OutFirst(sourceId, targetId, nodeId) ==
  IF Truthy(sourceId) /\ sourceId = Str(nodeId)
  THEN Str("out")
  ELSE IF Truthy(targetId) /\ targetId = Str(nodeId) THEN Str("in") ELSE Undef

resolveDirection(sourceId, targetId, nodeId) ==
  IF Truthy(sourceId) /\ sourceId = Str(nodeId) /\ Truthy(targetId) /\ targetId = Str(nodeId)
  THEN Str("bidirectional")
  ELSE IF Truthy(sourceId) /\ sourceId = Str(nodeId)
       THEN Str("out")
       ELSE IF Truthy(targetId) /\ targetId = Str(nodeId) THEN Str("in") ELSE Undef

extractTitle(record, key, titleKey) ==
  LET direct == Get(record, titleKey)
      value == Get(record, key)
      title == Get(value, "title")
      name == Get(value, "name")
  IN  IF direct.t = "str" /\ ~IsBlank(direct.v)
      THEN direct
      ELSE IF IsObjectLike(value)
           THEN IF title.t = "str" /\ ~IsBlank(title.v)
                THEN title
                ELSE IF name.t = "str" /\ ~IsBlank(name.v) THEN name ELSE Undef
           ELSE Undef

\* typeof record.source === 'object' && record.source ? record.source.id : undefined
NestedId(record, key) ==
  IF IsObjectLike(Get(record, key)) THEN Get(Get(record, key), "id") ELSE Undef

\* normalizeEdgeRecord for an edge that is an object (any other edge gives null)
normalizeEdgeRecord(record, nodeId) ==
  LET sourceId ==
        coerceString(Nullish4(Get(record, "sourceId"), Get(record, "fromId"),
                              Get(record, "fromNodeId"), NestedId(record, "source")))
      targetId ==
        coerceString(Nullish4(Get(record, "targetId"), Get(record, "toId"),
                              Get(record, "toNodeId"), NestedId(record, "target")))
  IN  [id |-> coerceString(Get(record, "id")),
       sourceId |-> sourceId,
       targetId |-> targetId,
       direction |-> resolveDirection(sourceId, targetId, nodeId),
       score |-> Nullish3(coerceNumber(Get(record, "score")), coerceNumber(Get(record, "weight")),
                          coerceNumber(Get(record, "similarity"))),
       status |-> coerceString(Nullish3(Get(record, "status"), Get(record, "state"),
                                        Get(record, "kind"))),
       label |-> coerceString(Nullish3(Get(record, "label"), Get(record, "name"),
                                       Get(record, "description"))),
       description |-> coerceString(Get(record, "description")),
       toTitle |-> Nullish(extractTitle(record, "target", "targetTitle"),
                           extractTitle(record, "to", "toTitle")),
       fromTitle |-> Nullish(extractTitle(record, "source", "sourceTitle"),
                             extractTitle(record, "from", "fromTitle"))]

\* input.map(normalizeEdgeRecord).filter(edge => edge !== null)
EdgeItems(list, nodeId) ==
  LET kept == SelectSeq(list, IsObjectLike)
  IN  [i \in 1..Len(kept) |-> normalizeEdgeRecord(kept[i], nodeId)]

\* { items, total }: total is items.length unless the collection states a number
Collection(items, total) == [items |-> items, total |-> Nullish(total, Num(Len(items)))]

NoCollection == [items |-> <<>>, total |-> Undef]

normalizeEdgeCollection(input, nodeId) ==
  IF ~Truthy(input)
  THEN NoCollection
  ELSE IF input.t = "arr"
       THEN Collection(EdgeItems(input.v, nodeId), Undef)
       ELSE IF input.t = "obj" /\ Get(input, "items").t = "arr"
            THEN Collection(EdgeItems(Get(input, "items").v, nodeId),
                            coerceNumber(Get(input, "total")))
            ELSE IF input.t = "obj" /\ Get(input, "edges").t = "arr"
                 THEN Collection(EdgeItems(Get(input, "edges").v, nodeId), Undef)
                 ELSE NoCollection

IsStr(x) == x.t = "str"

\* normalizeNodeDetail, first part: the edges and suggestions given directly
DirectEdges(source, id) ==
  LET edgesCollection == normalizeEdgeCollection(Get(source, "edges"), id)
      suggestionsCollection ==
        normalizeEdgeCollection(Nullish(Get(source, "suggestions"),
                                        Get(Get(source, "edges"), "suggested")), id)
  IN  [edges |-> edgesCollection.items,
       edgesTotal |->
         coerceNumber(Nullish3(Get(source, "edgesTotal"), Get(Get(source, "edges"), "total"),
                               edgesCollection.total)),
       suggestions |-> suggestionsCollection.items,
       suggestionsTotal |->
         coerceNumber(Nullish3(Get(source, "suggestionsTotal"),
                               Get(source, "suggestedEdgesTotal"),
                               suggestionsCollection.total))]

\* if (edges.length === 0 && source.edges && typeof source.edges === 'object') { ... }
NestedEdges(d, source, id) ==
  IF Len(d.edges) = 0 /\ IsObjectLike(Get(source, "edges"))
  THEN LET acceptedCollection ==
             normalizeEdgeCollection(Get(Get(source, "edges"), "accepted"), id)
           suggestedCollection ==
             normalizeEdgeCollection(Get(Get(source, "edges"), "suggested"), id)
       IN  IF Len(d.suggestions) = 0
           THEN [edges |-> acceptedCollection.items,
                 edgesTotal |-> Nullish(d.edgesTotal, acceptedCollection.total),
                 suggestions |-> suggestedCollection.items,
                 suggestionsTotal |-> Nullish(d.suggestionsTotal, suggestedCollection.total)]
           ELSE [d EXCEPT !.edges = acceptedCollection.items,
                          !.edgesTotal = Nullish(d.edgesTotal, acceptedCollection.total)]
  ELSE d

\* mutant: the legacy field replaces suggestions that were already found
FallbackSuggestions_Always(d, source, id) ==
  LET fallback == normalizeEdgeCollection(Get(source, "suggestedEdges"), id)
  IN  IF Len(fallback.items) > 0
      THEN [d EXCEPT !.suggestions = fallback.items,
                     !.suggestionsTotal = Nullish(d.suggestionsTotal, fallback.total)]
      ELSE d

\* if (suggestions.length === 0) { fallback to source.suggestedEdges }
FallbackSuggestions(d, source, id) ==
  LET fallback == normalizeEdgeCollection(Get(source, "suggestedEdges"), id)
  IN  IF Len(d.suggestions) = 0 /\ Len(fallback.items) > 0
      THEN [d EXCEPT !.suggestions = fallback.items,
                     !.suggestionsTotal = Nullish(d.suggestionsTotal, fallback.total)]
      ELSE d

\* the totals default to the lengths; the returned detail
DetailOf(d, source, id) ==
  [id |-> id,
   title |-> coerceString(Get(source, "title")),
   body |-> coerceString(Get(source, "body")),
   tags |-> SelectSeq(Entries(Get(source, "tags")), IsStr),
   bodyLength |-> coerceNumber(Nullish(Get(source, "bodyLength"), Get(source, "body_size"))),
   edges |-> d.edges,
   edgesTotal |-> IF d.edgesTotal.t = "num" THEN d.edgesTotal ELSE Num(Len(d.edges)),
   suggestions |-> d.suggestions,
   suggestionsTotal |->
     IF d.suggestionsTotal.t = "num" THEN d.suggestionsTotal ELSE Num(Len(d.suggestions))]

\* const id = this.coerceString(source.id) || nodeId
DetailId(source, nodeId) == OrElse(coerceString(Get(source, "id")), Str(nodeId)).v

DetailFrom(source, id) ==
  DetailOf(FallbackSuggestions(NestedEdges(DirectEdges(source, id), source, id), source, id),
           source, id)

normalizeNodeDetail(payload, nodeId) ==
  DetailFrom(Nullish(payload, EmptyObj), DetailId(Nullish(payload, EmptyObj), nodeId))

(***************************************************************************)
(* Bounds of the model.                                                    *)
(***************************************************************************)
MaxSockets == 3
MaxFrames == 2
MaxRetryDelay == 0
MaxCount == 2
MaxRequests == 2

(***************************************************************************)
(* State.                                                                  *)
(***************************************************************************)
VARIABLES
  \* subscribeToEvents: the options and the closure's variables
  optRetryDelayMs,   \* options.retryDelayMs (Undef when not given)
  closed,            \* let closed
  socket,            \* let socket: index into sockets, 0 = undefined
  reconnectTimer,    \* let reconnectTimer: index into timers, 0 = undefined
  \* the environment of the subscription
  sockets,           \* every WebSocket created so far: [readyState, mode]
  timers,            \* every setTimeout(connect, d) so far: [delay, state]
  \* what the subscriber observed
  unsubCalled,       \* the returned unsubscribe function has been called
  statusLog,         \* onStatusChange calls, in order
  received,          \* frames the transport delivered ('message' events)
  handlerCalls,      \* handler(event) calls: [frame, event]
  errorCalls,        \* onError calls: [source, frame, message]
  escaped            \* an exception left a socket callback

streamVars ==
  <<optRetryDelayMs, closed, socket, reconnectTimer, sockets, timers,
    unsubCalled, statusLog, received, handlerCalls, errorCalls, escaped>>

VARIABLES
  \* one call of a pure function of the normalizer
  fnArg,             \* the argument
  fnRes,             \* the result, once the call has returned
  fnPc               \* "idle", "call" or "done"

fnVars == <<fnArg, fnRes, fnPc>>

VARIABLES
  \* ForestClient
  timeoutMs,         \* this.timeoutMs
  contentCache,      \* this.contentCache: a function from the ids present to the values
  detailCache,       \* this.detailCache
  requests,          \* the calls of getNodeContent / getNodeDetail in flight, one per slot
  settled            \* the call whose promise has settled, until its caller resumes

clientVars == <<timeoutMs, contentCache, detailCache, requests, settled>>

VARIABLES
  \* NotesPane ("" stands for an undefined id)
  active,                 \* let active, of the subscription effect
  loadingRef,             \* loadingRef.current
  notesState,             \* [status, response]
  selectedId,             \* the selectedId state
  selectedIdRef,          \* selectedIdRef.current
  forcedRefreshId,        \* the forcedRefreshId state
  forcedDetailRefreshId,  \* the forcedDetailRefreshId state
  stale,                  \* a state update has not been rendered yet
  awaiting,               \* the event whose handler awaits loadNotes(true), or Undef
  delivered,              \* the number of events handed to the handler so far
  handled                 \* the handler call that returned last: [event, ran, reload]

paneVars ==
  <<active, loadingRef, notesState, selectedId, selectedIdRef, forcedRefreshId,
    forcedDetailRefreshId, stale, awaiting, delivered, handled>>

VARIABLES
  \* NotesPane: the query of the list
  page,                   \* the page state
  pageRef,                \* pageRef.current
  filters,                \* the filters state: the search text
  filtersRef,             \* filtersRef.current
  listCall                \* the listNodes call loadNotes awaits: [offset, search, refresh]

listVars == <<page, pageRef, filters, filtersRef, listCall>>

VARIABLES
  \* NotesPane: what it shows of the selected node
  contentState,           \* the contentState state: [status, id]
  detailState,            \* the detailState state: [status, id]
  fetches,                \* the promises the selection effect waits for: [kind, id, run]
  effectRun,              \* the run of the selection effect whose `cancelled` is false
  lastResolved            \* the promise settled last: [kind, id, ok, cancelled]

selectionVars == <<contentState, detailState, fetches, effectRun, lastResolved>>

VARIABLES
  \* NotesPane: the tag favorites
  favorites,              \* favoritesRef.current, the list of favoritesState
  writes,                 \* the saveTagFavorites calls under way: [n, favorites, pc]
  file,                   \* the list the favorites file holds
  updates                 \* the number of favorite updates so far, the clock of `now`

favoriteVars == <<favorites, writes, file, updates>>

viewVars == <<listVars, selectionVars, favoriteVars>>

\* what a step of one part of the program leaves alone
outsideStream == <<fnVars, clientVars, paneVars, viewVars>>
outsideFn == <<streamVars, clientVars, paneVars, viewVars>>
outsideClient == <<streamVars, fnVars, paneVars, viewVars>>

(***************************************************************************)
(* Frames.  A text is a sequence of lexical pieces; a frame arrives as a   *)
(* string, a Buffer, an ArrayBuffer or a list of Buffer fragments.         *)
(***************************************************************************)
TxtDeleted == <<"{", "\"type\":\"node:deleted\"", ",", "\"nodeId\":\"n1\"", "}">>
TxtTypedData == <<"{", "\"type\":\"custom\"", ",", "\"data\":{\"x\":1}", "}">>
TxtEnvelope == <<"{", "\"data\":{\"type\":\"node:updated\",\"node\":{\"id\":\"n1\"}}", "}">>
TxtFailure == <<"{", "\"success\":false", ",", "\"data\":null", ",", "\"error\":\"boom\"", "}">>
TxtGarbage == <<"{", "oops">>
TxtNoType == <<"{", "\"type\":5", ",", "\"nodeId\":\"n1\"", "}">>
TxtContent == <<"{", "\"id\":\"n1\"", ",", "\"body\":\"v1\"", "}">>
TxtContentEnvelope ==
  <<"{", "\"success\":true", ",", "\"data\":{\"id\":\"n1\",\"body\":\"v2\"}", "}">>
TxtFailureNoData == <<"{", "\"success\":false", ",", "\"error\":\"boom\"", "}">>
TxtList == <<"{", "\"items\":[{\"id\":\"n1\"},{\"id\":\"n2\"}]", ",", "\"total\":2", "}">>
TxtListArray == <<"[", "{\"id\":\"n1\"}", "]">>

\* the content of n1 as the server holds it after its k-th change
VersionName(k) ==
  CASE k = 0 -> "v0" [] k = 1 -> "v1" [] k = 2 -> "v2" [] k = 3 -> "v3" [] OTHER -> "v4"

VersionPiece(k) ==
  CASE k = 0 -> "\"body\":\"v0\"" [] k = 1 -> "\"body\":\"v1\"" [] k = 2 -> "\"body\":\"v2\""
    [] k = 3 -> "\"body\":\"v3\"" [] OTHER -> "\"body\":\"v4\""

TxtContentAt(k) == <<"{", "\"id\":\"n1\"", ",", VersionPiece(k), "}">>

EvDeleted == ObjOf({<<"type", Str("node:deleted")>>, <<"nodeId", Str("n1")>>})
EvTypedData ==
  ObjOf({<<"type", Str("custom")>>, <<"data", ObjOf({<<"x", Num(1)>>})>>})
EvUpdated ==
  ObjOf({<<"type", Str("node:updated")>>,
         <<"node", ObjOf({<<"id", Str("n1")>>})>>})

\* JSON.parse on the texts of the model: the value, or a SyntaxError.
JsonTexts ==
  { <<TxtDeleted, EvDeleted>>,
    <<TxtTypedData, EvTypedData>>,
    <<TxtEnvelope, ObjOf({<<"data", EvUpdated>>})>>,
    <<TxtFailure, ObjOf({<<"success", Bool(FALSE)>>, <<"data", Null>>,
                         <<"error", Str("boom")>>})>>,
    <<TxtNoType, ObjOf({<<"type", Num(5)>>, <<"nodeId", Str("n1")>>})>>,
    <<TxtContent, ObjOf({<<"id", Str("n1")>>, <<"body", Str("v1")>>})>>,
    <<TxtContentEnvelope,
      ObjOf({<<"success", Bool(TRUE)>>,
             <<"data", ObjOf({<<"id", Str("n1")>>, <<"body", Str("v2")>>})>>})>>,
    <<TxtFailureNoData, ObjOf({<<"success", Bool(FALSE)>>, <<"error", Str("boom")>>})>>,
    <<TxtList,
      ObjOf({<<"items", Arr(<<ObjOf({<<"id", Str("n1")>>}), ObjOf({<<"id", Str("n2")>>})>>)>>,
             <<"total", Num(2)>>})>>,
    <<TxtListArray, Arr(<<ObjOf({<<"id", Str("n1")>>})>>)>> }
  \cup { <<TxtContentAt(k), ObjOf({<<"id", Str("n1")>>, <<"body", Str(VersionName(k))>>})>> :
           k \in 0..MaxFrames }

JsonParse(text) ==
  IF \E p \in JsonTexts : p[1] = text
  THEN Returned((CHOOSE p \in JsonTexts : p[1] = text)[2])
  ELSE Thrown("SyntaxError")

RECURSIVE BufferConcat(_)
BufferConcat(list) ==
  IF list = <<>> THEN <<>> ELSE Head(list) \o BufferConcat(Tail(list))

decodeMessage(data) ==
  CASE data.repr = "string" -> data.bytes
    [] data.repr = "arraybuffer" -> data.bytes
    [] data.repr = "fragments" -> BufferConcat(data.bytes)
    [] OTHER -> data.bytes

Frames ==
  { [repr |-> "fragments", bytes |-> <<SubSeq(TxtDeleted, 1, 2), SubSeq(TxtDeleted, 3, 5)>>],
    [repr |-> "string", bytes |-> TxtTypedData],
    [repr |-> "arraybuffer", bytes |-> TxtEnvelope],
    [repr |-> "string", bytes |-> TxtFailure],
    [repr |-> "string", bytes |-> TxtGarbage],
    [repr |-> "buffer", bytes |-> TxtNoType] }

\* event && typeof event === 'object' && typeof event.type === 'string'
IsEvent(event) == IsObjectLike(event) /\ Get(event, "type").t = "str"

(***************************************************************************)
(* ForestClient: the request executor and the two node caches.  A call of  *)
(* getNodeContent / getNodeDetail occupies a slot of `requests` from the   *)
(* call until its promise settles.  A settled promise resumes its caller   *)
(* before the event loop runs anything else: `settled` is the call whose   *)
(* caller is about to resume, with the outcome the caller receives.        *)
(***************************************************************************)
NodeIds == {"n1", "n2"}

DEFAULT_TIMEOUT_MS == 5000

TimeoutOptions == {1, DEFAULT_TIMEOUT_MS}

\* response.status: ok, ok without a body, not ok
Statuses == {200, 204, 500}

\* the texts a response body may carry
Bodies == {TxtContent, TxtContentEnvelope, TxtFailure, TxtFailureNoData, TxtGarbage}

\* an Error message: the fixed text, the number and the text spliced into it
Message(text, n, detail) == [text |-> text, n |-> n, detail |-> detail]

\* the promise of a call: pending, resolved with a value, rejected with an error
Pending == [ok |-> FALSE, value |-> Undef, error |-> "pending", message |-> Message("", 0, <<>>)]
Resolved(v) == [ok |-> TRUE, value |-> v, error |-> "", message |-> Message("", 0, <<>>)]
Rejected(error, message) == [ok |-> FALSE, value |-> Undef, error |-> error, message |-> message]

\* what fetch() and response.json() reject with once the controller has aborted
AbortError == Rejected("AbortError", Message("This operation was aborted", 0, <<>>))

\* what fetch() and response.json() reject with when the connection fails
TransportError == Rejected("TypeError", Message("fetch failed", 0, <<>>))

HttpError(status, text) == Rejected("Error", Message("Forest request failed", status, text))

TimeoutMessage == Message("Forest request timed out after", timeoutMs, <<"ms">>)

IdleCall ==
  [kind |-> "none", id |-> "", pc |-> "idle", status |-> 0, body |-> <<>>,
   timer |-> "none", delay |-> 0, outcome |-> Pending, cont |-> "none"]

\* a call that settles before its first await (no request is made)
SettledCall(kind, id, outcome) ==
  [kind |-> kind, id |-> id, pc |-> "done", status |-> 0, body |-> <<>>,
   timer |-> "none", delay |-> 0, outcome |-> outcome, cont |-> "caller"]

\* request(): the controller, setTimeout(() => controller.abort(), this.timeoutMs), fetch
StartedCall(kind, id) ==
  [kind |-> kind, id |-> id, pc |-> "fetch", status |-> 0, body |-> <<>>,
   timer |-> "pending", delay |-> timeoutMs, outcome |-> Pending, cont |-> "caller"]

\* the same with the continuation its caller attached to the promise
StartedFor(kind, id, cont) == [StartedCall(kind, id) EXCEPT !.cont = cont]

EmptyCache == [k \in {} |-> Undef]

\* Map.set / Map.delete
MapSet(map, key, value) ==
  [k \in DOMAIN map \cup {key} |-> IF k = key THEN value ELSE map[k]]

MapDelete(map, key) == [k \in DOMAIN map \ {key} |-> map[k]]

getCachedNodeContent(id) ==
  IF id \in DOMAIN contentCache THEN contentCache[id] ELSE Undef

getCachedNodeDetail(id) ==
  IF id \in DOMAIN detailCache THEN detailCache[id] ELSE Undef

\* no caller is about to resume: the event loop takes its next task
Quiescent == settled.pc = "idle"

\* the lowest slot that holds no call in flight
FreeSlot(r) ==
  /\ Quiescent
  /\ requests[r].pc = "idle"
  /\ \A q \in 1..(r - 1) : requests[q].pc # "idle"

InFlight(r) == Quiescent /\ requests[r].pc \in {"fetch", "text", "json"}

\* mutant: the id is not examined
MissingId_Never(id) == FALSE

\* if (!id) of getNodeContent and getNodeDetail
MissingId(id) == id = ""

\* mutant: a call joins the request already in flight for the same id
GetNodeContent_SingleFlight(r, id, forceRefresh) ==
  /\ FreeSlot(r)
  /\ IF id = ""
     THEN /\ settled' = SettledCall("content", id,
                                    Rejected("Error", Message("Node id is required", 0, <<>>)))
          /\ UNCHANGED requests
     ELSE IF ~forceRefresh /\ Truthy(getCachedNodeContent(id))
          THEN /\ settled' = SettledCall("content", id, Resolved(getCachedNodeContent(id)))
               /\ UNCHANGED requests
          ELSE IF \E q \in 1..MaxRequests : /\ requests[q].pc # "idle"
                                            /\ requests[q].kind = "content"
                                            /\ requests[q].id = id
               THEN UNCHANGED <<requests, settled>>
               ELSE /\ requests' = [requests EXCEPT ![r] = StartedCall("content", id)]
                    /\ UNCHANGED settled
  /\ UNCHANGED <<timeoutMs, contentCache, detailCache, outsideClient>>

\* getNodeContent(id, options) up to its first await
GetNodeContent(r, id, forceRefresh) ==
  /\ FreeSlot(r)
  /\ IF MissingId(id)
     THEN /\ settled' = SettledCall("content", id,
                                    Rejected("Error", Message("Node id is required", 0, <<>>)))
          /\ UNCHANGED requests
     ELSE IF ~forceRefresh /\ Truthy(getCachedNodeContent(id))
          THEN /\ settled' = SettledCall("content", id, Resolved(getCachedNodeContent(id)))
               /\ UNCHANGED requests
          ELSE /\ requests' = [requests EXCEPT ![r] = StartedCall("content", id)]
               /\ UNCHANGED settled
  /\ UNCHANGED <<timeoutMs, contentCache, detailCache, outsideClient>>

\* mutant: forceRefresh is ignored when the detail is cached
GetNodeDetail_IgnoresForce(r, id, forceRefresh) ==
  /\ FreeSlot(r)
  /\ IF id = ""
     THEN /\ settled' = SettledCall("detail", id,
                                    Rejected("Error", Message("Node id is required", 0, <<>>)))
          /\ UNCHANGED requests
     ELSE IF id \in DOMAIN detailCache
          THEN /\ settled' = SettledCall("detail", id, Resolved(detailCache[id]))
               /\ UNCHANGED requests
          ELSE /\ requests' = [requests EXCEPT ![r] = StartedCall("detail", id)]
               /\ UNCHANGED settled
  /\ UNCHANGED <<timeoutMs, contentCache, detailCache, outsideClient>>

\* getNodeDetail(id, options) up to its first await
GetNodeDetail(r, id, forceRefresh) ==
  /\ FreeSlot(r)
  /\ IF MissingId(id)
     THEN /\ settled' = SettledCall("detail", id,
                                    Rejected("Error", Message("Node id is required", 0, <<>>)))
          /\ UNCHANGED requests
     ELSE IF ~forceRefresh /\ id \in DOMAIN detailCache
          THEN /\ settled' = SettledCall("detail", id, Resolved(detailCache[id]))
               /\ UNCHANGED requests
          ELSE /\ requests' = [requests EXCEPT ![r] = StartedCall("detail", id)]
               /\ UNCHANGED settled
  /\ UNCHANGED <<timeoutMs, contentCache, detailCache, outsideClient>>

\* mutant: the catch clause rethrows whatever it caught
catchError_Rethrow(error) == error

\* catch (error): an AbortError becomes the timeout error, anything else is rethrown
catchError(error) ==
  IF error.error = "AbortError" THEN Rejected("Error", TimeoutMessage) ELSE error

\* listNodes, after its await: the three shapes of the payload
listNodes(payload) ==
  IF payload.t = "arr"
  THEN Resolved([items |-> payload.v, total |-> Undef, limit |-> Undef, offset |-> Undef])
  ELSE IF Truthy(payload) /\ Get(payload, "items").t = "arr"
       THEN Resolved([items |-> Get(payload, "items").v, total |-> Get(payload, "total"),
                      limit |-> Get(payload, "limit"), offset |-> Get(payload, "offset")])
       ELSE IF Truthy(payload) /\ Get(payload, "nodes").t = "arr"
            THEN Resolved([items |-> Get(payload, "nodes").v, total |-> Get(payload, "total"),
                           limit |-> Get(payload, "limit"), offset |-> Get(payload, "offset")])
            ELSE Rejected("Error",
                          Message("Unexpected response shape from /nodes endpoint", 0, <<>>))

\* listTags, after its await: the three shapes of the payload
listTags(payload) ==
  IF payload.t = "arr"
  THEN Resolved(payload.v)
  ELSE IF Truthy(payload) /\ Get(payload, "items").t = "arr"
       THEN Resolved(Get(payload, "items").v)
       ELSE IF Truthy(payload) /\ Get(payload, "tags").t = "arr"
            THEN Resolved(Get(payload, "tags").v)
            ELSE Rejected("Error",
                          Message("Unexpected response shape from /tags endpoint", 0, <<>>))

\* what the method that awaited request() returns to its caller
CallResult(call, result) ==
  IF ~result.ok THEN result
  ELSE CASE call.kind = "detail" -> Resolved(normalizeNodeDetail(result.value, call.id))
         [] call.kind = "list" -> listNodes(result.value)
         [] call.kind = "tags" -> listTags(result.value)
         [] call.kind = "health" -> Resolved(normalizeHealth(result.value))
         [] call.kind = "stats" -> Resolved(normalizeStats(result.value))
         [] OTHER -> result

\* mutant: the store is skipped
Settle_NoStore(r, call, result) ==
  /\ requests' = [requests EXCEPT ![r] = IdleCall]
  /\ settled' =
       [call EXCEPT !.pc = "done",
                    !.timer = IF @ = "pending" THEN "cleared" ELSE @,
                    !.outcome = CallResult(call, result)]
  /\ UNCHANGED <<timeoutMs, contentCache, detailCache, outsideClient>>

\* request() settles with `result` (finally: clearTimeout), and the caller that
\* awaited it stores the value it got
Settle(r, call, result) ==
  /\ requests' = [requests EXCEPT ![r] = IdleCall]
  /\ settled' =
       [call EXCEPT !.pc = "done",
                    !.timer = IF @ = "pending" THEN "cleared" ELSE @,
                    !.outcome = CallResult(call, result)]
  /\ contentCache' =
       IF result.ok /\ call.kind = "content"
       THEN MapSet(contentCache, call.id, result.value)
       ELSE contentCache
  /\ detailCache' =
       IF result.ok /\ call.kind = "detail"
       THEN MapSet(detailCache, call.id, normalizeNodeDetail(result.value, call.id))
       ELSE detailCache
  /\ UNCHANGED <<timeoutMs, outsideClient>>

\* fetch() resolves with the response (status line and headers)
ResponseHeaders(r, status) ==
  /\ InFlight(r)
  /\ requests[r].pc = "fetch"
  /\ LET call == [requests[r] EXCEPT !.status = status]
     IN  IF status \notin 200..299
         THEN /\ requests' = [requests EXCEPT ![r] = [call EXCEPT !.pc = "text"]]
              /\ UNCHANGED <<timeoutMs, contentCache, detailCache, settled, outsideClient>>
         ELSE IF status = 204
              THEN Settle(r, call, Resolved(Undef))
              ELSE /\ requests' = [requests EXCEPT ![r] = [call EXCEPT !.pc = "json"]]
                   /\ UNCHANGED <<timeoutMs, contentCache, detailCache, settled, outsideClient>>

\* response.json(), then unwrap
JsonResult(text) ==
  IF ~JsonParse(text).ok
  THEN Rejected("SyntaxError", Message(JsonParse(text).message, 0, <<>>))
  ELSE IF unwrap(JsonParse(text).value).ok
       THEN Resolved(unwrap(JsonParse(text).value).value)
       ELSE Rejected("Error", Message(unwrap(JsonParse(text).value).message, 0, <<>>))

\* mutant: the body is decoded and unwrapped before the status is looked at
ResponseBody_UnwrapsFirst(r, text) ==
  /\ InFlight(r)
  /\ requests[r].pc \in {"text", "json"}
  /\ Settle(r, [requests[r] EXCEPT !.body = text], catchError(JsonResult(text)))

\* the body of the response has arrived
ResponseBody(r, text) ==
  /\ InFlight(r)
  /\ requests[r].pc \in {"text", "json"}
  /\ LET call == [requests[r] EXCEPT !.body = text]
     IN  IF call.pc = "text"
         THEN Settle(r, call, catchError(HttpError(call.status, text)))
         ELSE Settle(r, call, catchError(JsonResult(text)))

\* the connection fails before the response is complete
TransportFailure(r) ==
  /\ InFlight(r)
  /\ IF requests[r].pc = "text"
     THEN Settle(r, requests[r], catchError(HttpError(requests[r].status, <<>>)))
     ELSE Settle(r, requests[r], catchError(TransportError))

\* mutant: the timer aborts every call in flight
RequestTimeout_AbortsAll(r) ==
  /\ InFlight(r)
  /\ requests[r].timer = "pending"
  /\ requests' = [q \in 1..MaxRequests |-> IdleCall]
  /\ settled' = [requests[r] EXCEPT !.pc = "done", !.timer = "fired",
                                    !.outcome = catchError(AbortError)]
  /\ UNCHANGED <<timeoutMs, contentCache, detailCache, outsideClient>>

\* the timer of request() fires: controller.abort()
RequestTimeout(r) ==
  /\ InFlight(r)
  /\ requests[r].timer = "pending"
  /\ LET call == [requests[r] EXCEPT !.timer = "fired"]
     IN  IF call.pc = "text"
         THEN Settle(r, call, catchError(HttpError(call.status, <<>>)))
         ELSE Settle(r, call, catchError(AbortError))

EvictNodeContent(id) ==
  /\ Quiescent
  /\ contentCache' = MapDelete(contentCache, id)
  /\ UNCHANGED <<timeoutMs, detailCache, requests, settled, outsideClient>>

EvictNodeDetail(id) ==
  /\ Quiescent
  /\ detailCache' = MapDelete(detailCache, id)
  /\ UNCHANGED <<timeoutMs, contentCache, requests, settled, outsideClient>>

ClearNodeContentCache ==
  /\ Quiescent
  /\ contentCache' = EmptyCache
  /\ UNCHANGED <<timeoutMs, detailCache, requests, settled, outsideClient>>

ClearNodeDetailCache ==
  /\ Quiescent
  /\ detailCache' = EmptyCache
  /\ UNCHANGED <<timeoutMs, contentCache, requests, settled, outsideClient>>

\* the caller that awaited the settled call receives its outcome
Resume ==
  /\ ~Quiescent
  /\ settled' = IdleCall
  /\ UNCHANGED <<timeoutMs, contentCache, detailCache, requests, outsideClient>>

(***************************************************************************)
(* subscribeToEvents: the reconnecting event-stream subscription.          *)
(***************************************************************************)
DefaultRetryDelayMs == 5000

\* const retryDelay = options.retryDelayMs ?? 5000
retryDelay == Nullish(optRetryDelayMs, Num(DefaultRetryDelayMs)).v

\* new WebSocket(url, protocols)
NewSocket == [readyState |-> "CONNECTING", mode |-> "none"]

\* mutant: no try/catch around the decoding
OnMessage_NoCatch(data) ==
  LET parsed == JsonParse(decodeMessage(data))
      event == IF parsed.ok THEN unwrap(parsed.value) ELSE parsed
  IN  IF ~event.ok
      THEN [handled |-> <<>>, errors |-> <<>>, escaped |-> TRUE]
      ELSE IF IsEvent(event.value)
           THEN [handled |-> <<event.value>>, errors |-> <<>>, escaped |-> FALSE]
           ELSE [handled |-> <<>>, errors |-> <<>>, escaped |-> FALSE]

\* socket.on('message'): what one frame makes the callback do.
OnMessage(data) ==
  LET parsed == JsonParse(decodeMessage(data))
      event == IF parsed.ok THEN unwrap(parsed.value) ELSE parsed
  IN  IF ~event.ok
      THEN [handled |-> <<>>, errors |-> <<event.message>>, escaped |-> FALSE]
      ELSE IF IsEvent(event.value)
           THEN [handled |-> <<event.value>>, errors |-> <<>>, escaped |-> FALSE]
           ELSE [handled |-> <<>>, errors |-> <<>>, escaped |-> FALSE]

\* mutant: connect() opens the socket without announcing 'connecting'
connect_Silent ==
  IF closed
  THEN UNCHANGED <<statusLog, sockets, socket>>
  ELSE /\ statusLog' = statusLog
       /\ sockets' = Append(sockets, NewSocket)
       /\ socket' = Len(sockets) + 1

\* connect(), the closure called by subscribeToEvents and by the reconnect timer
connect ==
  IF closed
  THEN UNCHANGED <<statusLog, sockets, socket>>
  ELSE /\ statusLog' = Append(statusLog, "connecting")
       /\ sockets' = Append(sockets, NewSocket)
       /\ socket' = Len(sockets) + 1

\* mutant: the delay grows with the number of attempts (a backoff)
ScheduleReconnect_Backoff ==
  Append(timers, [delay |-> retryDelay * Len(sockets), state |-> "pending"])

\* setTimeout(connect, retryDelay) in the close callback
ScheduleReconnect == Append(timers, [delay |-> retryDelay, state |-> "pending"])

\* the socket's 'open' event
SocketOpen(s) ==
  /\ sockets[s].readyState = "CONNECTING"
  /\ sockets' = [sockets EXCEPT ![s].readyState = "OPEN"]
  /\ statusLog' = Append(statusLog, "connected")
  /\ UNCHANGED <<outsideStream, optRetryDelayMs, closed, socket, reconnectTimer, timers,
                 unsubCalled, received, handlerCalls, errorCalls, escaped>>

\* the 'message' callback on the subscription's side: frames arrive while the
\* socket is open, and until the closing handshake of a graceful close() completes
MessageCallback(s, data) ==
  /\ \/ sockets[s].readyState = "OPEN"
     \/ sockets[s].readyState = "CLOSING" /\ sockets[s].mode = "graceful"
  /\ Len(received) < MaxFrames
  /\ LET n == Len(received) + 1
         did == OnMessage(data)
     IN  /\ received' = Append(received, data)
         /\ handlerCalls' = handlerCalls \o
              [i \in 1..Len(did.handled) |-> [frame |-> n, event |-> did.handled[i]]]
         /\ errorCalls' = errorCalls \o
              [i \in 1..Len(did.errors) |->
                 [source |-> "message", frame |-> n, message |-> did.errors[i]]]
         /\ escaped' = (escaped \/ did.escaped)
  /\ UNCHANGED <<optRetryDelayMs, closed, socket, reconnectTimer, sockets, timers,
                 unsubCalled, statusLog>>

\* the socket's 'message' event, for a subscriber whose handler keeps no state
SocketMessage(s, data) == MessageCallback(s, data) /\ UNCHANGED outsideStream

\* mutant: the 'error' callback does not call onError
SocketError_Silent(s) ==
  /\ \/ /\ sockets[s].readyState \in {"CONNECTING", "OPEN"}
        /\ Len(sockets) < MaxSockets
     \/ sockets[s].readyState = "CLOSING" /\ sockets[s].mode = "abort"
  /\ sockets' = [sockets EXCEPT ![s] = [readyState |-> "CLOSING", mode |-> "destroy"]]
  /\ UNCHANGED <<outsideStream, optRetryDelayMs, closed, socket, reconnectTimer, timers,
                 unsubCalled, statusLog, received, handlerCalls, errorCalls, escaped>>

\* the socket's 'error' event: a failed handshake, a transport error on an open
\* socket, or the abort of a handshake by terminate(); 'close' follows
SocketError(s) ==
  /\ \/ /\ sockets[s].readyState \in {"CONNECTING", "OPEN"}
        /\ Len(sockets) < MaxSockets
     \/ sockets[s].readyState = "CLOSING" /\ sockets[s].mode = "abort"
  /\ sockets' = [sockets EXCEPT ![s] = [readyState |-> "CLOSING", mode |-> "destroy"]]
  /\ errorCalls' = Append(errorCalls,
                          [source |-> "socket", frame |-> 0, message |-> "socket error"])
  /\ UNCHANGED <<outsideStream, optRetryDelayMs, closed, socket, reconnectTimer, timers,
                 unsubCalled, statusLog, received, handlerCalls, escaped>>

\* mutant: the close callback drops the caches when the stream disconnects
SocketClose_ClearsCaches(s) ==
  /\ \/ sockets[s].readyState = "OPEN"
     \/ sockets[s].readyState = "CLOSING" /\ sockets[s].mode \in {"graceful", "destroy"}
  /\ closed \/ Len(sockets) < MaxSockets
  /\ sockets' = [sockets EXCEPT ![s] = [readyState |-> "CLOSED", mode |-> "none"]]
  /\ statusLog' = Append(statusLog, "disconnected")
  /\ IF ~closed
     THEN /\ timers' = ScheduleReconnect
          /\ reconnectTimer' = Len(timers) + 1
     ELSE UNCHANGED <<timers, reconnectTimer>>
  /\ contentCache' = EmptyCache
  /\ detailCache' = EmptyCache
  /\ UNCHANGED <<fnVars, paneVars, viewVars, timeoutMs, requests, settled, optRetryDelayMs,
                 closed, socket, unsubCalled, received, handlerCalls, errorCalls, escaped>>

\* the socket's 'close' event
SocketClose(s) ==
  /\ \/ sockets[s].readyState = "OPEN"
     \/ sockets[s].readyState = "CLOSING" /\ sockets[s].mode \in {"graceful", "destroy"}
  /\ closed \/ Len(sockets) < MaxSockets
  /\ sockets' = [sockets EXCEPT ![s] = [readyState |-> "CLOSED", mode |-> "none"]]
  /\ statusLog' = Append(statusLog, "disconnected")
  /\ IF ~closed
     THEN /\ timers' = ScheduleReconnect
          /\ reconnectTimer' = Len(timers) + 1
     ELSE UNCHANGED <<timers, reconnectTimer>>
  /\ UNCHANGED <<outsideStream, optRetryDelayMs, closed, socket, unsubCalled, received,
                 handlerCalls, errorCalls, escaped>>

\* the reconnect timer fires: the event loop runs connect()
\* mutant: the timer is an interval and stays pending after it fired
TimerFire_Repeats(i) ==
  /\ timers[i].state = "pending"
  /\ Len(sockets) < MaxSockets
  /\ connect
  /\ UNCHANGED <<outsideStream, optRetryDelayMs, closed, reconnectTimer, unsubCalled, received,
                 handlerCalls, errorCalls, escaped, timers>>

TimerFire(i) ==
  /\ timers[i].state = "pending"
  /\ timers' = [timers EXCEPT ![i].state = "fired"]
  /\ connect
  /\ UNCHANGED <<outsideStream, optRetryDelayMs, closed, reconnectTimer, unsubCalled, received,
                 handlerCalls, errorCalls, escaped>>

\* socket.close() on an OPEN socket, socket.terminate() on any other
CloseOrTerminate(ws) ==
  CASE ws.readyState = "OPEN" -> [readyState |-> "CLOSING", mode |-> "graceful"]
    [] ws.readyState = "CONNECTING" -> [readyState |-> "CLOSING", mode |-> "abort"]
    [] ws.readyState = "CLOSING" ->
         [readyState |-> "CLOSING",
          mode |-> IF ws.mode = "abort" THEN "abort" ELSE "destroy"]
    [] OTHER -> ws

\* mutant: unsubscribe forgets to set the closed flag
unsubscribe_NoFlag ==
  /\ unsubCalled' = TRUE
  /\ timers' = IF reconnectTimer # 0 /\ timers[reconnectTimer].state = "pending"
               THEN [timers EXCEPT ![reconnectTimer].state = "cleared"]
               ELSE timers
  /\ sockets' = IF socket # 0
                THEN [sockets EXCEPT ![socket] = CloseOrTerminate(sockets[socket])]
                ELSE sockets
  /\ UNCHANGED <<optRetryDelayMs, closed, socket, reconnectTimer, statusLog, received,
                 handlerCalls, errorCalls, escaped>>

\* the function subscribeToEvents returns
unsubscribe ==
  /\ closed' = TRUE
  /\ unsubCalled' = TRUE
  /\ timers' = IF reconnectTimer # 0 /\ timers[reconnectTimer].state = "pending"
               THEN [timers EXCEPT ![reconnectTimer].state = "cleared"]
               ELSE timers
  /\ sockets' = IF socket # 0
                THEN [sockets EXCEPT ![socket] = CloseOrTerminate(sockets[socket])]
                ELSE sockets
  /\ UNCHANGED <<optRetryDelayMs, socket, reconnectTimer, statusLog, received,
                 handlerCalls, errorCalls, escaped>>

\* the subscriber calls it
Unsubscribe == unsubscribe /\ UNCHANGED outsideStream

RetryDelayOptions == {Undef} \cup {Num(d) : d \in 0..MaxRetryDelay}

\* the state when subscribeToEvents returns: connect() has run once
StreamInit ==
  /\ optRetryDelayMs \in RetryDelayOptions
  /\ closed = FALSE
  /\ sockets = <<NewSocket>>
  /\ socket = 1
  /\ reconnectTimer = 0
  /\ timers = <<>>
  /\ unsubCalled = FALSE
  /\ statusLog = <<"connecting">>
  /\ received = <<>>
  /\ handlerCalls = <<>>
  /\ errorCalls = <<>>
  /\ escaped = FALSE

StreamNext ==
  \/ \E s \in 1..Len(sockets) : SocketOpen(s)
  \/ \E s \in 1..Len(sockets), data \in Frames : SocketMessage(s, data)
  \/ \E s \in 1..Len(sockets) : SocketError(s)
  \/ \E s \in 1..Len(sockets) : SocketClose(s)
  \/ \E i \in 1..Len(timers) : TimerFire(i)
  \/ Unsubscribe

\* no subscription has been made
StreamIdle ==
  /\ optRetryDelayMs = Undef
  /\ closed = FALSE
  /\ sockets = <<>>
  /\ socket = 0
  /\ reconnectTimer = 0
  /\ timers = <<>>
  /\ unsubCalled = FALSE
  /\ statusLog = <<>>
  /\ received = <<>>
  /\ handlerCalls = <<>>
  /\ errorCalls = <<>>
  /\ escaped = FALSE

\* a client that has made no call
ClientIdle ==
  /\ timeoutMs = DEFAULT_TIMEOUT_MS
  /\ contentCache = EmptyCache
  /\ detailCache = EmptyCache
  /\ requests = [r \in 1..MaxRequests |-> IdleCall]
  /\ settled = IdleCall

\* no normalizer call is being made
FnIdle == fnArg = Undef /\ fnRes = Undef /\ fnPc = "idle"

NoHandler == [event |-> Undef, ran |-> "none", reload |-> "none"]

\* loadNotes awaits no listNodes call
NoListCall == [offset |-> 0, search |-> "", refresh |-> FALSE, pending |-> FALSE]

\* the query of the list as the pane starts with it: no filter, the first page
ListIdle ==
  /\ page = 0
  /\ pageRef = 0
  /\ filters = ""
  /\ filtersRef = ""
  /\ listCall = NoListCall

Shown(status, id) == [status |-> status, id |-> id]

NoPromise == [kind |-> "none", id |-> "", ok |-> FALSE, cancelled |-> FALSE]

\* no node is selected: both states are idle and the selection effect waits
\* for nothing
SelectionIdle ==
  /\ contentState = Shown("idle", "")
  /\ detailState = Shown("idle", "")
  /\ fetches = {}
  /\ effectRun = 0
  /\ lastResolved = NoPromise

\* no favorites, no file, no write under way
FavoritesIdle ==
  /\ favorites = <<>>
  /\ writes = {}
  /\ file = <<>>
  /\ updates = 0

ViewIdle == ListIdle /\ SelectionIdle /\ FavoritesIdle

\* no pane is mounted
PaneIdle ==
  /\ active = FALSE
  /\ loadingRef = FALSE
  /\ notesState = [status |-> "loading", response |-> Undef]
  /\ selectedId = ""
  /\ selectedIdRef = ""
  /\ forcedRefreshId = ""
  /\ forcedDetailRefreshId = ""
  /\ stale = FALSE
  /\ awaiting = Undef
  /\ delivered = 0
  /\ handled = NoHandler
  /\ ViewIdle

vars == <<streamVars, fnVars, clientVars, paneVars, viewVars>>

Init == StreamInit /\ FnIdle /\ ClientIdle /\ PaneIdle

Next == StreamNext

Spec == Init /\ [][Next]_vars

\* the event loop runs a due timer's callback
FairSpec == Spec /\ WF_vars(\E i \in 1..Len(timers) : TimerFire(i))

\* the transport emits 'close' once it has destroyed a socket after an error
TransportFairSpec ==
  FairSpec /\ WF_vars(\E s \in 1..Len(sockets) : sockets[s].mode = "destroy" /\ SocketClose(s))

(***************************************************************************)
(* Properties of the event-stream subscription.                            *)
(***************************************************************************)
Disconnected == socket # 0 /\ sockets[socket].readyState = "CLOSED"

TimersIn(state) == {i \in 1..Len(timers) : timers[i].state = state}

ClosedSockets == {s \in 1..Len(sockets) : sockets[s].readyState = "CLOSED"}

Count(log, x) == Cardinality({i \in 1..Len(log) : log[i] = x})

ReconnectDiscipline ==
  /\ \A i \in 1..Len(timers) :
       timers[i].delay = (IF optRetryDelayMs = Undef THEN 5000 ELSE optRetryDelayMs.v)
  /\ Cardinality(TimersIn("pending")) <= 1
  /\ Len(sockets) = 1 + Cardinality(TimersIn("fired"))
  /\ Count(statusLog, "connecting") = Len(sockets)
  /\ ~unsubCalled => Len(timers) = Cardinality(ClosedSockets)

\* C1: every close of the subscription's socket before unsubscribe schedules
\* exactly one reconnect, always with the delay options.retryDelayMs (5000 ms
\* when absent), and that reconnect (a new socket, announced by 'connecting')
\* is eventually made unless unsubscribe is called first, however many closes
\* came before.
C1_ReconnectAfterClose ==
  /\ []ReconnectDiscipline
  /\ (Disconnected /\ ~unsubCalled) ~> (unsubCalled \/ ~Disconnected)

C1_Witness ==
  /\ ~unsubCalled
  /\ optRetryDelayMs = Undef
  /\ Len(sockets) = 3
  /\ Cardinality(TimersIn("fired")) = 2
  /\ sockets[3].readyState = "OPEN"

\* C2: once unsubscribe has been called no step creates a socket or reports
\* 'connecting'.
C2_NoConnectAfterUnsubscribe ==
  [][unsubCalled =>
       /\ Len(sockets') = Len(sockets)
       /\ Count(statusLog', "connecting") = Count(statusLog, "connecting")]_vars

C2_Witness ==
  /\ unsubCalled
  /\ Disconnected
  /\ TimersIn("cleared") # {}
  /\ Len(sockets) = 2

FrameCalls(n) == {k \in 1..Len(handlerCalls) : handlerCalls[k].frame = n}

FrameErrors(n) ==
  {k \in 1..Len(errorCalls) :
     errorCalls[k].source = "message" /\ errorCalls[k].frame = n}

FrameText(n) == JsonParse(decodeMessage(received[n]))

\* C3: every received frame whose JSON text is an object with a string `type`
\* field is passed to the handler exactly once, as that object.
C3_EventFrameHandledOnce ==
  \A n \in 1..Len(received) :
    (FrameText(n).ok /\ IsEvent(FrameText(n).value)) =>
      /\ Cardinality(FrameCalls(n)) = 1
      /\ \A k \in FrameCalls(n) : handlerCalls[k].event = FrameText(n).value

\* C4 as stated: a frame that fails JSON parsing or parses to a value without a
\* string `type` never reaches the handler and is reported once through onError.
C4_MalformedFrameReported ==
  \A n \in 1..Len(received) :
    (~FrameText(n).ok \/ ~IsEvent(FrameText(n).value)) =>
      /\ FrameCalls(n) = {}
      /\ Cardinality(FrameErrors(n)) = 1
      /\ ~escaped

DeclaresFailure(p) ==
  IsObjectLike(p) /\ HasKey(p, "data") /\ Get(p, "success") = Bool(FALSE)

Unwrapped(p) == IF IsObjectLike(p) /\ HasKey(p, "data") THEN Get(p, "data") ELSE p

MalformedFrameRule ==
  /\ ~escaped
  /\ \A n \in 1..Len(received) :
       LET p == FrameText(n)
       IN  /\ (~p.ok \/ DeclaresFailure(p.value)) =>
                 FrameCalls(n) = {} /\ Cardinality(FrameErrors(n)) = 1
           /\ (p.ok /\ ~DeclaresFailure(p.value) /\ ~IsEvent(Unwrapped(p.value))) =>
                 FrameCalls(n) = {} /\ FrameErrors(n) = {}

\* C4, amended: a frame that is not a well-formed event after envelope
\* unwrapping never reaches the handler, lets no exception escape and leaves the
\* connection as it was; onError is called once when the text fails JSON parsing
\* or the envelope declares success:false, and not at all when the frame decodes
\* to a value without a string `type`.
C4_MalformedFrameDropped ==
  /\ []MalformedFrameRule
  /\ [][Len(received') > Len(received) =>
          UNCHANGED <<sockets, socket, closed, timers, reconnectTimer, statusLog>>]_vars

C4_Witness ==
  /\ Len(received) = 2
  /\ ~FrameText(1).ok
  /\ Cardinality(FrameErrors(1)) = 1
  /\ FrameText(2).ok
  /\ FrameText(2).value = EvDeleted
  /\ FrameCalls(2) # {}
  /\ socket = 1
  /\ sockets[1].readyState = "OPEN"

LastStatus == statusLog[Len(statusLog)]

StatusOrder(allowed) ==
  /\ statusLog # <<>>
  /\ statusLog[1] = "connecting"
  /\ \A i \in 1..(Len(statusLog) - 1) : <<statusLog[i], statusLog[i + 1]>> \in allowed

\* the socket event behind each status notification of a step
StatusCause ==
  statusLog' # statusLog =>
    /\ Len(statusLog') = Len(statusLog) + 1
    /\ SubSeq(statusLog', 1, Len(statusLog)) = statusLog
    /\ LET status == statusLog'[Len(statusLog')]
       IN  /\ status = "connecting" => Len(sockets') = Len(sockets) + 1
           /\ status = "connected" =>
                \E s \in 1..Len(sockets) : /\ sockets[s].readyState = "CONNECTING"
                                           /\ sockets'[s].readyState = "OPEN"
           /\ status = "disconnected" =>
                \E s \in 1..Len(sockets) : /\ sockets[s].readyState # "CLOSED"
                                           /\ sockets'[s].readyState = "CLOSED"

StatusSteps ==
  {<<"connecting", "connected">>, <<"connected", "disconnected">>,
   <<"disconnected", "connecting">>}

\* a connection attempt that fails, or is aborted by unsubscribe, closes the
\* socket before it ever opened
FailedAttempt == <<"connecting", "disconnected">>

\* C17: the status notifications of one subscription start with 'connecting'
\* and follow only the transitions connecting -> connected, connected ->
\* disconnected, disconnected -> connecting and, for an attempt that never
\* opened, connecting -> disconnected; 'connected' is reported only in the step
\* of a socket's open event, 'disconnected' only in the step of its close event,
\* and while unsubscribe has not been called 'disconnected' is always followed
\* by a new 'connecting'.
C17_StatusTransitions ==
  /\ []StatusOrder(StatusSteps \cup {FailedAttempt})
  /\ [][StatusCause]_vars
  /\ (LastStatus = "disconnected" /\ ~unsubCalled)
       ~> (unsubCalled \/ LastStatus = "connecting")

\* a failed first attempt, a reconnect that opens, and its close
C17_Witness ==
  /\ ~unsubCalled
  /\ statusLog = <<"connecting", "disconnected", "connecting", "connected", "disconnected">>

\* C17 as stated: only the three transitions connecting -> connected,
\* connected -> disconnected and disconnected -> connecting occur
C17_ThreeTransitionsOnly == StatusOrder(StatusSteps)

SocketErrorCall == [source |-> "socket", frame |-> 0, message |-> "socket error"]

\* socket s has its 'error' event in this step
ErrorEvent(s) ==
  /\ \/ sockets[s].readyState \in {"CONNECTING", "OPEN"}
     \/ sockets[s].mode = "abort"
  /\ sockets'[s].mode = "destroy"

\* socket s has its 'close' event in this step
CloseEvent(s) == sockets[s].readyState # "CLOSED" /\ sockets'[s].readyState = "CLOSED"

\* what the callbacks of a transport event do in the step of the event
TransportReport ==
  \A s \in 1..Len(sockets) :
    /\ ErrorEvent(s) => errorCalls' = Append(errorCalls, SocketErrorCall) /\ ~escaped'
    /\ CloseEvent(s) =>
         /\ statusLog' = Append(statusLog, "disconnected")
         /\ ~escaped'
         /\ ~closed =>
              /\ Len(timers') = Len(timers) + 1
              /\ timers'[Len(timers')] = [delay |-> retryDelay, state |-> "pending"]

FixedDelay == \A i \in 1..Len(timers) : timers[i].delay = retryDelay

Broken == socket # 0 /\ sockets[socket].readyState \in {"CLOSING", "CLOSED"}

\* C19: a socket 'error' event calls onError and a close calls
\* onStatusChange('disconnected'), in the step of the event and with nothing
\* thrown; a close before unsubscribe schedules the reconnect with the delay
\* options.retryDelayMs (5000 ms when absent), the same for every reconnect
\* however many failures came before; and after an error or a close the next
\* connection attempt is eventually made unless unsubscribe is called first.
C19_TransportErrors ==
  /\ [][TransportReport]_vars
  /\ [](FixedDelay /\ ~escaped)
  /\ (Broken /\ ~unsubCalled) ~> (unsubCalled \/ ~Broken)

\* two failed attempts in a row, each reported and each followed by a reconnect
\* after the same delay
C19_Witness ==
  /\ ~unsubCalled
  /\ Len(sockets) = 3
  /\ Count(errorCalls, SocketErrorCall) = 2
  /\ statusLog = <<"connecting", "disconnected", "connecting", "disconnected", "connecting">>
  /\ Len(timers) = 2
  /\ timers[1].delay = timers[2].delay

\* what a call of unsubscribe leaves behind
UnsubscribeLeaves ==
  unsubscribe =>
    /\ closed'
    /\ \A i \in 1..Len(timers') : timers'[i].state # "pending"
    /\ socket # 0 =>
         IF sockets[socket].readyState = "OPEN"
         THEN sockets'[socket] = [readyState |-> "CLOSING", mode |-> "graceful"]
         ELSE /\ sockets'[socket].readyState \in {"CLOSING", "CLOSED"}
              /\ sockets'[socket].mode # "graceful"

UnsubscribeAgain == (unsubCalled /\ unsubscribe) => UNCHANGED streamVars

\* C20: a call of unsubscribe, in any state of the subscription, leaves the
\* closed flag set, no reconnect timer pending and the current socket closing
\* gracefully when it was OPEN and terminated otherwise; a call after the first
\* changes nothing.
C20_Unsubscribe == [][UnsubscribeLeaves /\ UnsubscribeAgain]_vars

(***************************************************************************)
(* Envelope unwrapping on its own.                                         *)
(***************************************************************************)
\* a field of a payload: absent, or one of the given values
Field(key, values) == {{}} \cup {{<<key, x>>} : x \in values}

EnvelopePayloads ==
  { ObjOf(d \cup su \cup e \cup m) :
      d \in Field("data", {Null, Num(1), ObjOf({<<"id", Str("n1")>>}), Arr(<<Num(1)>>)}),
      su \in Field("success", {Bool(FALSE), Bool(TRUE), Null, Num(0), Str("false")}),
      e \in Field("error", {Str("boom"), Str(""), ObjOf({<<"code", Num(7)>>})}),
      m \in Field("message", {Str("msg"), Str(""), Num(7)}) }

UnwrapPayloads ==
  EnvelopePayloads \cup
    { Null, Num(0), Num(1), Str("data"), Str(""), Bool(FALSE), Bool(TRUE),
      Arr(<<>>), Arr(<<ObjOf({<<"data", Num(1)>>})>>) }

UnwrapInit == StreamIdle /\ ClientIdle /\ PaneIdle /\ fnArg \in UnwrapPayloads /\ fnRes = Undef /\ fnPc = "call"

CallUnwrap ==
  /\ fnPc = "call"
  /\ fnRes' = unwrap(fnArg)
  /\ fnPc' = "done"
  /\ UNCHANGED <<fnArg, outsideFn>>

SpecUnwrap == UnwrapInit /\ [][CallUnwrap]_vars

IsEnvelope(p) == p.t = "obj" /\ "data" \in DOMAIN p.v

\* the message the claim gives a failed envelope
FailureMessage(p) ==
  IF "error" \in DOMAIN p.v /\ p.v["error"].t = "str"
  THEN p.v["error"].v
  ELSE IF "message" \in DOMAIN p.v /\ p.v["message"] \notin {Str(""), Null, Num(0), Bool(FALSE)}
       THEN ToText(p.v["message"])
       ELSE "Forest API responded with an error."

\* C8: unwrap fails with the envelope's error (a string), else its message,
\* else the generic text, exactly when the payload is an object with a `data` key
\* and success === false; returns `data` for every other object with a `data`
\* key; and returns any other payload unchanged.
C8_UnwrapLaw ==
  fnPc = "done" =>
    /\ (IsEnvelope(fnArg) /\ Get(fnArg, "success") = Bool(FALSE)) =>
         ~fnRes.ok /\ fnRes.message = FailureMessage(fnArg)
    /\ (IsEnvelope(fnArg) /\ Get(fnArg, "success") # Bool(FALSE)) =>
         fnRes.ok /\ fnRes.value = fnArg.v["data"]
    /\ ~IsEnvelope(fnArg) => fnRes.ok /\ fnRes.value = fnArg

C8_Witness ==
  /\ fnPc = "done"
  /\ IsEnvelope(fnArg)
  /\ Get(fnArg, "success") = Bool(FALSE)
  /\ Get(fnArg, "error") = ObjOf({<<"code", Num(7)>>})
  /\ Get(fnArg, "message") = Str("msg")
  /\ fnRes = Thrown("msg")

(***************************************************************************)
(* Stats normalization on its own.                                         *)
(***************************************************************************)
Counts == {Num(n) : n \in 0..MaxCount}

RecentList ==
  Arr(<<ObjOf({<<"id", Str("n1")>>, <<"title", Str("First")>>, <<"createdAt", Str("t1")>>}),
        ObjOf({<<"id", Str("n2")>>, <<"updatedAt", Str("t2")>>})>>)

\* {nodes:{total:T,...}, edges:{accepted:A,suggested:S,total:A+S}, tags:{total:Tg}},
\* with or without a list of recent nodes and a suggestions section
NestedStatsPayloads ==
  { ObjOf({<<"nodes", ObjOf({<<"total", T>>} \cup r)>>,
           <<"edges", ObjOf({<<"accepted", A>>, <<"suggested", S>>,
                             <<"total", Num(A.v + S.v)>>})>>,
           <<"tags", ObjOf({<<"total", Tg>>})>>} \cup sg) :
      T \in Counts, A \in Counts, S \in Counts, Tg \in Counts,
      r \in Field("recent", {RecentList}),
      sg \in Field("suggestions", {ObjOf({<<"highScoreCount", Num(4)>>})}) }

\* {nodes:N, edges:E, suggestedEdges:S, tags:Tg}
FlatStatsPayloads ==
  { ObjOf({<<"nodes", N>>, <<"edges", E>>, <<"suggestedEdges", S>>, <<"tags", Tg>>}) :
      N \in Counts, E \in Counts, S \in Counts, Tg \in Counts }

\* lists of the structured payload: entries with each alias, and entries that are
\* dropped (null, a string, no id, an empty id, no name)
RecentLists ==
  { Arr(<<>>),
    RecentList,
    Arr(<<ObjOf({<<"title", Str("No id")>>}), Null,
          ObjOf({<<"id", Num(7)>>, <<"createdAt", Str("t1")>>, <<"updatedAt", Str("t2")>>})>>),
    Arr(<<ObjOf({<<"id", Str("")>>, <<"title", Str("Empty id")>>}),
          ObjOf({<<"id", Str("n2")>>, <<"createdAt", Null>>, <<"updatedAt", Str("t2")>>}),
          ObjOf({<<"id", Str("n1")>>})>>) }

TopTagLists ==
  { Arr(<<ObjOf({<<"name", Str("research")>>, <<"count", Num(12)>>}),
          ObjOf({<<"tag", Str("ideas")>>, <<"count", Num(9)>>})>>),
    Arr(<<ObjOf({<<"count", Num(3)>>}), Str("loose"),
          ObjOf({<<"name", Null>>, <<"tag", Str("ideas")>>}),
          ObjOf({<<"name", Str("a")>>, <<"tag", Str("b")>>, <<"count", Str("many")>>})>>) }

TopSuggestionLists ==
  { Arr(<<ObjOf({<<"ref", Str("edge-1")>>, <<"sourceId", Str("n1")>>,
                 <<"targetId", Str("n3")>>, <<"score", Num(8)>>}),
          ObjOf({<<"code", Str("edge-2")>>, <<"fromId", Str("n2")>>,
                 <<"toId", Str("n4")>>, <<"weight", Num(7)>>})>>),
    Arr(<<Null,
          ObjOf({<<"id", Str("edge-3")>>, <<"code", Str("c3")>>, <<"sourceId", Str("n1")>>,
                 <<"fromId", Str("n9")>>, <<"score", Num(0)>>, <<"weight", Num(5)>>}),
          EmptyObj>>) }

HighDegreeLists ==
  { Arr(<<ObjOf({<<"id", Str("n5")>>, <<"title", Str("Hub")>>, <<"edgeCount", Num(18)>>}),
          ObjOf({<<"id", Str("n6")>>, <<"title", Str("Connector")>>, <<"degree", Num(12)>>})>>),
    Arr(<<ObjOf({<<"title", Str("No id")>>, <<"degree", Num(3)>>}),
          ObjOf({<<"id", Str("n7")>>, <<"edgeCount", Num(1)>>, <<"degree", Num(2)>>})>>) }

\* {nodes:{total, recentCount?, recent?}, edges:{accepted, suggested, total},
\*  tags:{total, topTags?}, suggestions:{highScoreCount?, topSuggestions?},
\*  highDegreeNodes?}
StructuredStatsPayloads ==
  { ObjOf({<<"nodes", ObjOf({<<"total", Num(5)>>} \cup rc \cup r)>>,
           <<"edges", ObjOf({<<"accepted", Num(2)>>, <<"suggested", Num(1)>>,
                             <<"total", Num(3)>>})>>,
           <<"tags", ObjOf({<<"total", Num(4)>>} \cup tt)>>,
           <<"suggestions", ObjOf(hc \cup ts)>>} \cup hd) :
      rc \in Field("recentCount", {Num(3)}),
      r \in Field("recent", RecentLists),
      tt \in Field("topTags", TopTagLists),
      hc \in Field("highScoreCount", {Num(4)}),
      ts \in Field("topSuggestions", TopSuggestionLists),
      hd \in Field("highDegreeNodes", HighDegreeLists) }

StatsPayloads ==
  NestedStatsPayloads \cup FlatStatsPayloads \cup StructuredStatsPayloads
    \cup {Null, Num(1), Arr(<<>>)}

StatsInit == StreamIdle /\ ClientIdle /\ PaneIdle /\ fnArg \in StatsPayloads /\ fnRes = Undef /\ fnPc = "call"

CallNormalizeStats ==
  /\ fnPc = "call"
  /\ fnRes' = normalizeStats(fnArg)
  /\ fnPc' = "done"
  /\ UNCHANGED <<fnArg, outsideFn>>

SpecStats == StatsInit /\ [][CallNormalizeStats]_vars

\* the payload is {nodes:{total,...}, edges:{accepted,suggested,total}, tags:{total}}
\* with total = accepted + suggested and no other top-level field
IsNestedStats(p) ==
  /\ p.t = "obj"
  /\ DOMAIN p.v = {"nodes", "edges", "tags"}
  /\ p.v["nodes"].t = "obj" /\ Get(p.v["nodes"], "total").t = "num"
  /\ p.v["tags"].t = "obj" /\ DOMAIN p.v["tags"].v = {"total"}
  /\ p.v["tags"].v["total"].t = "num"
  /\ p.v["edges"].t = "obj" /\ DOMAIN p.v["edges"].v = {"accepted", "suggested", "total"}
  /\ \A k \in {"accepted", "suggested", "total"} : p.v["edges"].v[k].t = "num"
  /\ p.v["edges"].v["total"].v = p.v["edges"].v["accepted"].v + p.v["edges"].v["suggested"].v

\* C10: for a payload {nodes:{total:T,...}, edges:{accepted:A,suggested:S,
\* total:A+S}, tags:{total:Tg}} normalizeStats yields nodes = T, edges = A+S,
\* suggestedEdges = S and tags = Tg.
C10_NestedStatsCounts ==
  (fnPc = "done" /\ IsNestedStats(fnArg)) =>
    /\ fnRes.nodes = fnArg.v["nodes"].v["total"]
    /\ fnRes.edges = fnArg.v["edges"].v["total"]
    /\ fnRes.suggestedEdges = fnArg.v["edges"].v["suggested"]
    /\ fnRes.tags = fnArg.v["tags"].v["total"]

\* the payload is {nodes:N, edges:E, suggestedEdges:S, tags:Tg}, four numbers
IsFlatStats(p) ==
  /\ p.t = "obj"
  /\ DOMAIN p.v = {"nodes", "edges", "suggestedEdges", "tags"}
  /\ \A k \in DOMAIN p.v : p.v[k].t = "num"

\* C11: for a flat payload {nodes:N, edges:E, suggestedEdges:S, tags:Tg} of
\* numbers (0 included) normalizeStats yields exactly these four values, the four
\* derived lists empty, and recentCount and highScoreSuggestionCount undefined.
C11_FlatStats ==
  (fnPc = "done" /\ IsFlatStats(fnArg)) =>
    /\ fnRes.nodes = fnArg.v["nodes"]
    /\ fnRes.edges = fnArg.v["edges"]
    /\ fnRes.suggestedEdges = fnArg.v["suggestedEdges"]
    /\ fnRes.tags = fnArg.v["tags"]
    /\ fnRes.recentNodes = <<>>
    /\ fnRes.topTags = <<>>
    /\ fnRes.topSuggestions = <<>>
    /\ fnRes.highDegreeNodes = <<>>
    /\ fnRes.recentCount = Undef
    /\ fnRes.highScoreSuggestionCount = Undef

\* normalizeStats has returned for a flat payload with zero counts
C11_Witness ==
  /\ fnPc = "done"
  /\ IsFlatStats(fnArg)
  /\ fnArg.v["nodes"] = Num(0)
  /\ fnArg.v["suggestedEdges"] = Num(0)
  /\ fnArg.v["edges"] = Num(2)
  /\ fnRes.nodes = Num(0)

\* a ?? b ?? ... over the fields of an entry, in the order of the keys
RECURSIVE FirstPresent(_, _)
FirstPresent(entry, keys) ==
  IF keys = <<>> THEN Undef
  ELSE IF Get(entry, Head(keys)).t \notin {"undef", "null"}
       THEN Get(entry, Head(keys))
       ELSE FirstPresent(entry, Tail(keys))

\* an output field: its name, the aliases it is read from, text or number
AliasOf(entry, field) ==
  IF field[3] = "text"
  THEN coerceString(FirstPresent(entry, field[2]))
  ELSE coerceNumber(FirstPresent(entry, field[2]))

\* one output entry per valid input entry, in input order, aliases resolved
ListLaw(out, valid, fields) ==
  /\ Len(out) = Len(valid)
  /\ \A i \in 1..Len(out) : \A k \in 1..Len(fields) :
        out[i][fields[k][1]] = AliasOf(valid[i], fields[k])

IdentifiedEntry(entry) ==
  IsObjectLike(entry) /\ AliasOf(entry, <<"id", <<"id">>, "text">>) \notin {Undef, Str("")}

NamedEntry(entry) ==
  IsObjectLike(entry)
    /\ AliasOf(entry, <<"name", <<"name", "tag">>, "text">>) \notin {Undef, Str("")}

\* the section's count when it is a number, else the length of a non-empty list
CountLaw(count, sectionCount, list) ==
  count = IF sectionCount.t = "num" THEN sectionCount
          ELSE IF Len(list) > 0 THEN Num(Len(list)) ELSE Undef

HealthPayloads ==
  { ObjOf(o \cup st \cup m) :
      o \in Field("ok", {Bool(TRUE), Bool(FALSE), Null, Str("false"), Num(0)}),
      st \in Field("status", {Str("healthy"), Str("Healthy"), Str("OK"), Str("ok"),
                              Str("degraded"), Str(""), Num(1), Null}),
      m \in Field("meta", {ObjOf({<<"version", Str("1.0")>>, <<"uptimeSeconds", Num(3)>>})}) }
    \cup {Null, Undef, Str("ok"), Num(0)}

HealthInit ==
  /\ StreamIdle
  /\ ClientIdle
  /\ PaneIdle
  /\ fnArg \in HealthPayloads
  /\ fnRes = Undef
  /\ fnPc = "call"

CallNormalizeHealth ==
  /\ fnPc = "call"
  /\ fnRes' = normalizeHealth(fnArg)
  /\ fnPc' = "done"
  /\ UNCHANGED <<fnArg, outsideFn>>

SpecHealth == HealthInit /\ [][CallNormalizeHealth]_vars

\* the status of the payload reads "healthy" or "ok", in any case
SaysHealthy(status) ==
  status \in {Str("healthy"), Str("Healthy"), Str("HEALTHY"), Str("ok"), Str("OK"), Str("Ok")}

\* the payload states a status: a non-empty text, or a number
StatesStatus(status) == (status.t = "str" /\ status.v # "") \/ status.t = "num"

\* C16, as amended: ok is the payload's ok when that is a boolean; otherwise,
\* when the payload states a status, ok is true exactly when the status reads
\* "healthy" or "ok" ignoring case; otherwise ok is true.
C16_HealthOk ==
  (fnPc = "done" /\ fnArg \in HealthPayloads) =>
    fnRes.ok = IF Get(fnArg, "ok").t = "bool" THEN Get(fnArg, "ok")
               ELSE IF StatesStatus(Get(fnArg, "status"))
                    THEN Bool(SaysHealthy(Get(fnArg, "status")))
                    ELSE Bool(TRUE)

\* a payload without a boolean ok whose status is "Healthy"
C16_Witness ==
  /\ fnPc = "done"
  /\ Get(fnArg, "ok") = Str("false")
  /\ Get(fnArg, "status") = Str("Healthy")
  /\ fnRes.ok = Bool(TRUE)

\* C16 as stated: ok is the payload's ok when that is a boolean, true when the
\* status reads "healthy" or "ok", and true in every other case.
C16_HealthDefaultsTrue ==
  (fnPc = "done" /\ fnArg \in HealthPayloads) =>
    fnRes.ok = IF Get(fnArg, "ok").t = "bool" THEN Get(fnArg, "ok")
               ELSE IF SaysHealthy(Get(fnArg, "status")) THEN Bool(TRUE) ELSE Bool(TRUE)

(***************************************************************************)
(* Edge normalization on its own: one edge object and the queried node id. *)
(***************************************************************************)
\* the ways an edge names one endpoint: absent, each alias, a nested object,
\* a number, an empty string, and a null in front of an alias
EndpointFields(direct, short, long, nested) ==
  { {},
    {<<direct, Str("n1")>>},
    {<<direct, Str("n2")>>},
    {<<short, Str("n1")>>},
    {<<long, Str("n1")>>},
    {<<nested, ObjOf({<<"id", Str("n1")>>, <<"title", Str("One")>>})>>},
    {<<direct, Num(1)>>},
    {<<direct, Str("")>>, <<short, Str("n1")>>},
    {<<direct, Null>>, <<short, Str("n2")>>, <<nested, ObjOf({<<"id", Str("n1")>>})>>} }

EdgeObjects ==
  { ObjOf({<<"id", Str("e1")>>, <<"direction", Str("in")>>} \cup src \cup tgt) :
      src \in EndpointFields("sourceId", "fromId", "fromNodeId", "source"),
      tgt \in EndpointFields("targetId", "toId", "toNodeId", "target") }

QueriedIds == {"n1", "n2", "1"}

EdgeInit ==
  /\ StreamIdle
  /\ ClientIdle
  /\ PaneIdle
  /\ fnArg \in [edge : EdgeObjects, nodeId : QueriedIds]
  /\ fnRes = Undef
  /\ fnPc = "call"

CallNormalizeEdgeRecord ==
  /\ fnPc = "call"
  /\ fnRes' = normalizeEdgeRecord(fnArg.edge, fnArg.nodeId)
  /\ fnPc' = "done"
  /\ UNCHANGED <<fnArg, outsideFn>>

SpecEdge == EdgeInit /\ [][CallNormalizeEdgeRecord]_vars

\* the direction of an edge with the given resolved endpoints, seen from id
DirectionFrom(sourceId, targetId, id) ==
  CASE sourceId = Str(id) /\ targetId = Str(id) -> Str("bidirectional")
    [] sourceId = Str(id) /\ targetId # Str(id) -> Str("out")
    [] targetId = Str(id) /\ sourceId # Str(id) -> Str("in")
    [] OTHER -> Undef

\* C13: for every edge object and every non-empty queried id the normalized
\* direction is bidirectional iff the resolved source and target both equal the
\* id, out iff only the source does, in iff only the target does, and undefined
\* otherwise.
C13_Direction ==
  (fnPc = "done" /\ fnArg \in [edge : EdgeObjects, nodeId : QueriedIds]) =>
    fnRes.direction = DirectionFrom(fnRes.sourceId, fnRes.targetId, fnArg.nodeId)

\* an edge from the queried node to itself, named through two different aliases
C13_Witness ==
  /\ fnPc = "done"
  /\ fnArg \in [edge : EdgeObjects, nodeId : QueriedIds]
  /\ fnArg.nodeId = "n1"
  /\ Get(fnArg.edge, "fromId") = Str("n1")
  /\ Get(Get(fnArg.edge, "target"), "id") = Str("n1")
  /\ fnRes.direction = Str("bidirectional")

(***************************************************************************)
(* Node-detail normalization on its own: the payload of GET nodes/:id and  *)
(* the id it was requested for, as getNodeDetail passes them.              *)
(***************************************************************************)
EdgeOut == ObjOf({<<"id", Str("e1")>>, <<"sourceId", Str("n1")>>, <<"targetId", Str("n2")>>,
                  <<"direction", Str("in")>>})
EdgeIn == ObjOf({<<"id", Str("e2")>>, <<"fromId", Str("n2")>>, <<"toId", Str("n1")>>})
EdgeLoop == ObjOf({<<"id", Str("e3")>>, <<"sourceId", Str("n1")>>, <<"targetId", Str("n1")>>})

\* lists of up to MaxCount edge objects
EdgeLists == {Arr(SubSeq(<<EdgeOut, EdgeIn, EdgeLoop>>, 1, n)) : n \in 0..MaxCount}

\* edges:{accepted:[...], suggested:[...]}
NestedEdgeSections ==
  {ObjOf({<<"accepted", a>>, <<"suggested", sg>>}) : a \in EdgeLists, sg \in EdgeLists}

DetailPayloads ==
  { ObjOf({<<"title", Str("One")>>} \cup i \cup e \cup sg \cup l) :
      i \in Field("id", {Str("n1"), Str("n2")}),
      e \in Field("edges", {Arr(<<EdgeOut>>)} \cup NestedEdgeSections),
      sg \in Field("suggestions", {Arr(<<EdgeIn>>)}),
      l \in Field("suggestedEdges", {Arr(<<EdgeLoop, EdgeOut>>)}) }

DetailInit ==
  /\ StreamIdle
  /\ ClientIdle
  /\ PaneIdle
  /\ fnArg \in [payload : DetailPayloads, nodeId : NodeIds]
  /\ fnRes = Undef
  /\ fnPc = "call"

\* const detail = this.normalizeNodeDetail(payload, id)
CallNormalizeNodeDetail ==
  /\ fnPc = "call"
  /\ fnRes' = normalizeNodeDetail(fnArg.payload, fnArg.nodeId)
  /\ fnPc' = "done"
  /\ UNCHANGED <<fnArg, outsideFn>>

SpecDetail == DetailInit /\ [][CallNormalizeNodeDetail]_vars

IsDetailCall(arg) == arg \in [payload : DetailPayloads, nodeId : NodeIds]

\* every edge of the list has the direction its endpoints give it, seen from id
DirectionsFrom(list, id) ==
  \A i \in 1..Len(list) :
    list[i].direction = DirectionFrom(list[i].sourceId, list[i].targetId, id)

\* C14: in the detail getNodeDetail(id) builds from a payload (and stores under
\* id), the direction of every edge and every suggestion is the one seen from
\* id, whatever id or direction the payload carries.
C14_DirectionFromFetchedId ==
  (fnPc = "done" /\ IsDetailCall(fnArg)) =>
    /\ DirectionsFrom(fnRes.edges, fnArg.nodeId)
    /\ DirectionsFrom(fnRes.suggestions, fnArg.nodeId)

\* the payload has no top-level edge or suggestion list and a nested section
\* edges:{accepted:[...], suggested:[...]}
HasNestedEdgesOnly(payload) ==
  /\ ~HasKey(payload, "suggestions")
  /\ Get(payload, "edges") \in NestedEdgeSections

\* C15: for a payload with no top-level lists and edges:{accepted:[a items],
\* suggested:[s items]}, the detail has a edges and edgesTotal = a; it has s
\* suggestions and suggestionsTotal = s, unless s = 0 and the legacy
\* suggestedEdges field holds edges, which are then the suggestions; the legacy
\* field is not read when the nested section gave suggestions.
C15_NestedEdgeSections ==
  (fnPc = "done" /\ IsDetailCall(fnArg) /\ HasNestedEdgesOnly(fnArg.payload)) =>
    LET accepted == Get(Get(fnArg.payload, "edges"), "accepted").v
        suggested == Get(Get(fnArg.payload, "edges"), "suggested").v
        legacy == Entries(Get(fnArg.payload, "suggestedEdges"))
    IN  /\ Len(fnRes.edges) = Len(accepted)
        /\ \A i \in 1..Len(accepted) : fnRes.edges[i].id = Get(accepted[i], "id")
        /\ fnRes.edgesTotal = Num(Len(accepted))
        /\ fnRes.suggestionsTotal = Num(Len(suggested))
        /\ IF Len(suggested) > 0 \/ Len(legacy) = 0
           THEN /\ Len(fnRes.suggestions) = Len(suggested)
                /\ \A i \in 1..Len(suggested) :
                      fnRes.suggestions[i].id = Get(suggested[i], "id")
           ELSE /\ Len(fnRes.suggestions) = Len(legacy)
                /\ \A i \in 1..Len(legacy) : fnRes.suggestions[i].id = Get(legacy[i], "id")

\* two accepted edges and one suggested edge in the nested section, next to a
\* legacy suggestedEdges list that is not used
C15_Witness ==
  /\ fnPc = "done"
  /\ IsDetailCall(fnArg)
  /\ HasNestedEdgesOnly(fnArg.payload)
  /\ HasKey(fnArg.payload, "suggestedEdges")
  /\ Len(fnRes.edges) = 2
  /\ Len(fnRes.suggestions) = 1
  /\ fnRes.edgesTotal = Num(2)
  /\ fnRes.suggestionsTotal = Num(1)

(***************************************************************************)
(* The two caches: calls for two nodes, answered with a raw payload, an    *)
(* envelope, a transport failure or not at all.                            *)
(***************************************************************************)
CacheBodies == {TxtContent, TxtContentEnvelope}

CacheStatuses == {200}

CacheInit == StreamIdle /\ FnIdle /\ ClientIdle /\ PaneIdle

CacheNext ==
  \/ \E r \in 1..MaxRequests, id \in NodeIds, forceRefresh \in BOOLEAN :
       GetNodeContent(r, id, forceRefresh)
  \/ \E r \in 1..MaxRequests, id \in NodeIds, forceRefresh \in BOOLEAN :
       GetNodeDetail(r, id, forceRefresh)
  \/ \E r \in 1..MaxRequests, status \in CacheStatuses : ResponseHeaders(r, status)
  \/ \E r \in 1..MaxRequests, text \in CacheBodies : ResponseBody(r, text)
  \/ \E r \in 1..MaxRequests : TransportFailure(r)
  \/ \E r \in 1..MaxRequests : RequestTimeout(r)
  \/ Resume
  \/ \E id \in NodeIds : EvictNodeContent(id)
  \/ \E id \in NodeIds : EvictNodeDetail(id)
  \/ ClearNodeContentCache
  \/ ClearNodeDetailCache

SpecCache == CacheInit /\ [][CacheNext]_vars


\* a step in which a getNodeContent / getNodeDetail call for `id` stores the value
\* its request returned (a call answered from the cache makes no request)
StoreStep(kind, id) ==
  /\ settled.pc = "idle"
  /\ settled'.pc = "done"
  /\ settled'.kind = kind
  /\ settled'.id = id
  /\ settled'.outcome.ok
  /\ settled'.timer # "none"

IsAbsent(x) == "t" \in DOMAIN x /\ x.t = "undef"

\* the entry of `id` differs between the two maps
EntryChanged(before, after, id) ==
  \/ (id \in DOMAIN before) # (id \in DOMAIN after)
  \/ id \in DOMAIN before /\ id \in DOMAIN after /\ before[id] # after[id]

CacheLaw ==
  \A id \in NodeIds :
    /\ StoreStep("content", id) => getCachedNodeContent(id)' = settled'.outcome.value
    /\ StoreStep("detail", id) => getCachedNodeDetail(id)' = settled'.outcome.value
    /\ EntryChanged(contentCache, contentCache', id) =>
         StoreStep("content", id) \/ EvictNodeContent(id) \/ ClearNodeContentCache
    /\ EntryChanged(detailCache, detailCache', id) =>
         StoreStep("detail", id) \/ EvictNodeDetail(id) \/ ClearNodeDetailCache
    /\ EvictNodeContent(id) \/ ClearNodeContentCache => IsAbsent(getCachedNodeContent(id)')
    /\ EvictNodeDetail(id) \/ ClearNodeDetailCache => IsAbsent(getCachedNodeDetail(id)')

\* C6: in each of the two caches, the value a successful getNodeContent(id) /
\* getNodeDetail(id) stored is what getCachedNodeContent(id) / getCachedNodeDetail(id)
\* returns from then on, until the next store, eviction or clear touches that id;
\* and right after an eviction of id or a clear, the getCached call returns absent.
C6_CacheLaw == [][CacheLaw]_vars

\* a detail has just been stored for one node while the content of the other node is
\* cached and its detail is not
C6_Witness ==
  /\ settled.pc = "done"
  /\ settled.kind = "detail"
  /\ settled.outcome.ok
  /\ settled.timer = "cleared"
  /\ getCachedNodeDetail(settled.id) = settled.outcome.value
  /\ \E id \in NodeIds \ {settled.id} :
       id \in DOMAIN contentCache /\ id \notin DOMAIN detailCache

\* the calls in flight for one id
CallsFor(kind, id) ==
  {q \in 1..MaxRequests : /\ requests[q].pc # "idle"
                          /\ requests[q].kind = kind
                          /\ requests[q].id = id}

\* a call that finds no usable entry starts a request of its own in the free
\* slot, whatever is in flight
NoSingleFlight ==
  \A r \in 1..MaxRequests, id \in NodeIds, forceRefresh \in BOOLEAN :
    /\ (ENABLED GetNodeContent(r, id, forceRefresh)
        /\ (forceRefresh \/ ~Truthy(getCachedNodeContent(id)))) =>
         ENABLED (/\ GetNodeContent(r, id, forceRefresh)
                  /\ requests' = [requests EXCEPT ![r] = StartedCall("content", id)])
    /\ (ENABLED GetNodeDetail(r, id, forceRefresh)
        /\ (forceRefresh \/ id \notin DOMAIN detailCache)) =>
         ENABLED (/\ GetNodeDetail(r, id, forceRefresh)
                  /\ requests' = [requests EXCEPT ![r] = StartedCall("detail", id)])

\* the value of the response a call read, as the method returns it
ResponseValue(call) ==
  IF call.kind = "detail"
  THEN normalizeNodeDetail(JsonResult(call.body).value, call.id)
  ELSE JsonResult(call.body).value

\* a call that resolves returns the value of its own response and leaves it in
\* the cache, over whatever an earlier response had left there
OwnResponseWins ==
  \A id \in NodeIds :
    /\ StoreStep("content", id) =>
         /\ settled'.outcome.value = ResponseValue(settled')
         /\ contentCache'[id] = ResponseValue(settled')
    /\ StoreStep("detail", id) =>
         /\ settled'.outcome.value = ResponseValue(settled')
         /\ detailCache'[id] = ResponseValue(settled')

\* C23: a getNodeContent / getNodeDetail call that finds no usable entry starts
\* its own request even when one for the same id is in flight; each call that
\* resolves returns the value of its own response, and that value is the cache
\* entry of the id from then on, so the response that resolves last is the one
\* the cache keeps.
C23_NoSingleFlight == []NoSingleFlight /\ [][OwnResponseWins]_vars

\* the first of two overlapping calls for n1 has resolved and stored its value
\* while the second, which will overwrite it, is still reading its response
C23_Witness ==
  /\ settled.pc = "done"
  /\ settled.kind = "content"
  /\ settled.id = "n1"
  /\ settled.timer = "cleared"
  /\ settled.outcome.ok
  /\ contentCache["n1"] = settled.outcome.value
  /\ \E q \in CallsFor("content", "n1") : requests[q].pc = "json"

(***************************************************************************)
(* One client with its event stream: fetches of one node while the socket  *)
(* opens, fails, closes and reconnects.                                    *)
(***************************************************************************)
\* a subscription made without options.retryDelayMs, next to a client that has
\* made no call
ClientStreamInit ==
  StreamInit /\ optRetryDelayMs = Undef /\ FnIdle /\ ClientIdle /\ PaneIdle

ClientStreamNext ==
  \/ \E s \in 1..Len(sockets) : SocketOpen(s)
  \/ \E s \in 1..Len(sockets) : SocketError(s)
  \/ \E s \in 1..Len(sockets) : SocketClose(s)
  \/ \E i \in 1..Len(timers) : TimerFire(i)
  \/ Unsubscribe
  \/ \E r \in 1..MaxRequests, forceRefresh \in BOOLEAN : GetNodeContent(r, "n1", forceRefresh)
  \/ \E r \in 1..MaxRequests : GetNodeDetail(r, "n1", FALSE)
  \/ \E r \in 1..MaxRequests : ResponseHeaders(r, 200)
  \/ \E r \in 1..MaxRequests : ResponseBody(r, TxtContent)
  \/ \E r \in 1..MaxRequests : RequestTimeout(r)
  \/ Resume
  \/ EvictNodeContent("n1")
  \/ ClearNodeDetailCache

SpecClientStream == ClientStreamInit /\ [][ClientStreamNext]_vars

\* a transition of the event stream
StreamStep == streamVars' # streamVars

CacheRemovals ==
  \A id \in NodeIds :
    /\ id \in DOMAIN contentCache /\ id \notin DOMAIN contentCache' =>
         EvictNodeContent(id) \/ ClearNodeContentCache
    /\ id \in DOMAIN detailCache /\ id \notin DOMAIN detailCache' =>
         EvictNodeDetail(id) \/ ClearNodeDetailCache

\* C21: a step of the event stream (open, error, close, reconnect timer,
\* unsubscribe) leaves both caches and every call in flight as they were, and a
\* cache entry disappears only in a step of evictNodeContent / evictNodeDetail
\* for its id or of a clear call.
C21_StreamLeavesClient ==
  /\ [][StreamStep => UNCHANGED clientVars]_vars
  /\ [][CacheRemovals]_vars

\* the stream has lost its first socket, reconnected and been unsubscribed while
\* the content of n1 stays cached and a call is in flight
C21_Witness ==
  /\ unsubCalled
  /\ Len(sockets) = 2
  /\ sockets[1].readyState = "CLOSED"
  /\ sockets[2].readyState = "CLOSED"
  /\ "n1" \in DOMAIN contentCache
  /\ \E r \in 1..MaxRequests : requests[r].pc = "fetch"

\* the client with calls in flight next to a stream that loses its socket and
\* reconnects
TimeoutNext ==
  \/ \E s \in 1..Len(sockets) : SocketOpen(s)
  \/ \E s \in 1..Len(sockets) : SocketClose(s)
  \/ \E i \in 1..Len(timers) : TimerFire(i)
  \/ \E r \in 1..MaxRequests, forceRefresh \in BOOLEAN : GetNodeContent(r, "n1", forceRefresh)
  \/ \E r \in 1..MaxRequests : GetNodeDetail(r, "n1", FALSE)
  \/ \E r \in 1..MaxRequests : ResponseHeaders(r, 200)
  \/ \E r \in 1..MaxRequests : ResponseBody(r, TxtContent)
  \/ \E r \in 1..MaxRequests : RequestTimeout(r)
  \/ Resume

SpecTimeout == ClientStreamInit /\ [][TimeoutNext]_vars

\* the timer of call r fires in this step
TimeoutStep(r) ==
  /\ settled.pc = "idle"
  /\ requests[r].timer = "pending"
  /\ requests'[r] = IdleCall
  /\ settled'.pc = "done"
  /\ settled'.timer = "fired"

TimeoutAbortsOne ==
  \A r \in 1..MaxRequests :
    TimeoutStep(r) =>
      /\ ~settled'.outcome.ok
      /\ settled'.kind = requests[r].kind /\ settled'.id = requests[r].id
      /\ \A q \in (1..MaxRequests) \ {r} : requests'[q] = requests[q]
      /\ UNCHANGED <<contentCache, detailCache, streamVars>>

\* a call in flight is never settled by anything but its own response, its own
\* transport failure or its own timer
OwnOutcome ==
  \A q \in 1..MaxRequests :
    (requests[q].pc # "idle" /\ requests'[q] # requests[q]) =>
      \/ requests'[q].pc \in {"text", "json"} /\ requests'[q].timer = "pending"
      \/ /\ requests'[q] = IdleCall
         /\ settled'.pc = "done"
         /\ settled'.kind = requests[q].kind /\ settled'.id = requests[q].id

\* C22: the step in which the timer of one call fires settles that call as
\* failed and nothing else: every other call in flight keeps its state and its
\* own pending timer, and is later settled only by its own response, failure or
\* timer; both caches and the whole state of the event stream are unchanged.
C22_TimeoutAbortsOneCall == [][TimeoutAbortsOne /\ OwnOutcome]_vars

\* one call has just timed out while the other one, started before, is reading
\* its response, the content of n1 is cached and a reconnect timer is pending
C22_Witness ==
  /\ settled.pc = "done"
  /\ settled.timer = "fired"
  /\ settled.outcome.message = TimeoutMessage
  /\ \E q \in 1..MaxRequests : requests[q].pc = "json" /\ requests[q].timer = "pending"
  /\ "n1" \in DOMAIN contentCache
  /\ TimersIn("pending") # {}

(***************************************************************************)
(* The request executor: calls for one node, answered with every status    *)
(* and every body of the model.                                            *)
(***************************************************************************)
RequestInit ==
  /\ StreamIdle
  /\ FnIdle
  /\ PaneIdle
  /\ timeoutMs \in TimeoutOptions
  /\ contentCache = EmptyCache
  /\ detailCache = EmptyCache
  /\ requests = [r \in 1..MaxRequests |-> IdleCall]
  /\ settled = IdleCall

RequestNext ==
  \/ \E r \in 1..MaxRequests, id \in {"n1", ""}, forceRefresh \in BOOLEAN :
       GetNodeContent(r, id, forceRefresh)
  \/ \E r \in 1..MaxRequests, id \in {"n1", ""}, forceRefresh \in BOOLEAN :
       GetNodeDetail(r, id, forceRefresh)
  \/ \E r \in 1..MaxRequests, status \in Statuses : ResponseHeaders(r, status)
  \/ \E r \in 1..MaxRequests, text \in Bodies : ResponseBody(r, text)
  \/ \E r \in 1..MaxRequests : TransportFailure(r)
  \/ \E r \in 1..MaxRequests : RequestTimeout(r)
  \/ Resume

SpecRequest == RequestInit /\ [][RequestNext]_vars

IsTimeoutError(outcome) ==
  ~outcome.ok /\ outcome.message.text = "Forest request timed out after"

\* C7: a call fails with the timeout error only when the timer of its request, set
\* for timeoutMs, has fired; a request that got no response by then fails with that
\* error, whose message differs from the one of a transport failure and of a non-2xx
\* status; a call that settles before the timer fires never fails with the timeout
\* error and its timer is cancelled; a request in flight has its timer pending.
C7_Timeout ==
  /\ \A r \in 1..MaxRequests :
       requests[r].pc # "idle" =>
         requests[r].timer = "pending" /\ requests[r].delay = timeoutMs
  /\ settled.pc = "done" =>
       /\ IsTimeoutError(settled.outcome) =>
            /\ settled.timer = "fired"
            /\ settled.delay = timeoutMs
            /\ settled.outcome.message = Message("Forest request timed out after", timeoutMs, <<"ms">>)
       /\ settled.timer = "fired" /\ settled.status = 0 => IsTimeoutError(settled.outcome)
       /\ settled.timer # "fired" =>
            ~IsTimeoutError(settled.outcome) /\ settled.timer \in {"cleared", "none"}
       /\ settled.timer = "none" => settled.status = 0 /\ settled.body = <<>>
       /\ settled.outcome \in {TransportError, HttpError(settled.status, settled.body),
                               HttpError(settled.status, <<>>)} =>
            ~IsTimeoutError(settled.outcome)

\* a request that got no response has timed out while another call is still in flight
C7_Witness ==
  /\ settled.pc = "done"
  /\ settled.status = 0
  /\ settled.timer = "fired"
  /\ IsTimeoutError(settled.outcome)
  /\ \E r \in 1..MaxRequests : requests[r].pc = "json"

\* the JSON body declares success === false
BodyDeclaresFailure(text) ==
  JsonParse(text).ok /\ Get(JsonParse(text).value, "success") = Bool(FALSE)

EvEdge ==
  ObjOf({<<"type", Str("edge:created")>>,
         <<"edge", ObjOf({<<"sourceId", Str("n1")>>,
                          <<"target", ObjOf({<<"id", Str("n2")>>})>>})>>})

PaneEvents == {EvDeleted, EvUpdated, EvEdge, EvTypedData}

\* event.type.startsWith('edge:') / startsWith('node:'), on the types of the model
TypeFamily(type) ==
  CASE type \in {"node:created", "node:updated", "node:deleted"} -> "node"
    [] type \in {"edge:created", "edge:accepted", "edge:rejected", "edge:deleted"} -> "edge"
    [] OTHER -> "other"

normalizePossibleId(value) ==
  IF value.t = "str" /\ value.v # "" THEN value ELSE Undef

\* the ids extractEdgeNodeIds returns, as a set
extractEdgeNodeIds(event) ==
  LET edge == Get(event, "edge")
      sourceId == normalizePossibleId(Nullish3(Get(edge, "sourceId"), Get(edge, "fromId"),
                                               Get(Get(edge, "source"), "id")))
      targetId == normalizePossibleId(Nullish3(Get(edge, "targetId"), Get(edge, "toId"),
                                               Get(Get(edge, "target"), "id")))
      nodeId == normalizePossibleId(Get(event, "nodeId"))
      found == (IF IsObjectLike(edge) THEN {sourceId, targetId} ELSE {}) \cup {nodeId}
  IN  {x.v : x \in {y \in found : y.t = "str"}}

\* event.nodeId || event.id || event.node?.id
DeletedId(event) ==
  OrElse(OrElse(Get(event, "nodeId"), Get(event, "id")), Get(Get(event, "node"), "id"))

\* item.id of a list item ("" when it is not a string)
ItemId(item) == IF Get(item, "id").t = "str" THEN Get(item, "id").v ELSE ""

\* the selection the validation effect settles on
ValidSelection(state, id) ==
  IF state.status # "ready" THEN ""
  ELSE IF state.response.items = <<>> THEN ""
       ELSE IF id # "" /\ \E i \in 1..Len(state.response.items) :
                             ItemId(state.response.items[i]) = id
            THEN id
            ELSE ItemId(state.response.items[1])

IdleSlots(reqs) == {r \in 1..MaxRequests : reqs[r].pc = "idle"}

\* a request is made: it takes the lowest slot that holds no call
Issue(reqs, call) ==
  [reqs EXCEPT ![CHOOSE r \in IdleSlots(reqs) : \A q \in IdleSlots(reqs) : r <= q] = call]

RECURSIVE IssueAll(_, _)
IssueAll(reqs, calls) ==
  IF calls = <<>> THEN reqs ELSE IssueAll(Issue(reqs, Head(calls)), Tail(calls))

MapDeleteAll(map, keys) == [k \in DOMAIN map \ keys |-> map[k]]

\* client.listNodes(...) as loadNotes(refresh) calls it
ListCall(refresh) == StartedFor("list", "", IF refresh THEN "reloadNotes" ELSE "loadNotes")

HandlerReturn(event, ran, reload) ==
  [event |-> event, ran |-> ran, reload |-> reload]

\* mutant: node:deleted evicts the content entry only
NodeBranch_ContentOnly(event, reqs, dirty) ==
  LET type == Get(event, "type").v
      node == Get(event, "node")
      updated == /\ type \in {"node:created", "node:updated"}
                 /\ Truthy(node)
                 /\ Get(node, "id").t = "str"
      nodeId == IF updated THEN Get(node, "id").v ELSE ""
      selected == updated /\ nodeId # "" /\ selectedIdRef = nodeId
      deleted == type = "node:deleted" /\ DeletedId(event).t = "str"
  IN  /\ IF updated /\ ~selected /\ nodeId # ""
         THEN /\ IdleSlots(reqs) # {}
              /\ requests' = Issue(reqs, StartedFor("content", nodeId, "display"))
         ELSE requests' = reqs
      /\ forcedRefreshId' = IF selected THEN nodeId ELSE forcedRefreshId
      /\ forcedDetailRefreshId' = IF selected THEN nodeId ELSE forcedDetailRefreshId
      /\ stale' = (dirty \/ (selected /\ (forcedRefreshId # nodeId
                                          \/ forcedDetailRefreshId # nodeId)))
      /\ contentCache' = IF deleted
                         THEN MapDelete(contentCache, DeletedId(event).v)
                         ELSE contentCache
      /\ detailCache' = IF updated /\ ~selected
                        THEN MapDelete(detailCache, nodeId)
                        ELSE detailCache

\* the handler after `await loadNotes(true)` and `if (!active) return`
NodeBranch(event, reqs, dirty) ==
  LET type == Get(event, "type").v
      node == Get(event, "node")
      updated == /\ type \in {"node:created", "node:updated"}
                 /\ Truthy(node)
                 /\ Get(node, "id").t = "str"
      nodeId == IF updated THEN Get(node, "id").v ELSE ""
      selected == updated /\ nodeId # "" /\ selectedIdRef = nodeId
      deleted == type = "node:deleted" /\ DeletedId(event).t = "str"
  IN  /\ IF updated /\ ~selected /\ nodeId # ""
         THEN /\ IdleSlots(reqs) # {}
              /\ requests' = Issue(reqs, StartedFor("content", nodeId, "display"))
         ELSE requests' = reqs
      /\ forcedRefreshId' = IF selected THEN nodeId ELSE forcedRefreshId
      /\ forcedDetailRefreshId' = IF selected THEN nodeId ELSE forcedDetailRefreshId
      /\ stale' = (dirty \/ (selected /\ (forcedRefreshId # nodeId
                                          \/ forcedDetailRefreshId # nodeId)))
      /\ contentCache' = IF deleted
                         THEN MapDelete(contentCache, DeletedId(event).v)
                         ELSE contentCache
      /\ detailCache' = IF updated /\ ~selected
                        THEN MapDelete(detailCache, nodeId)
                        ELSE IF deleted
                             THEN MapDelete(detailCache, DeletedId(event).v)
                             ELSE detailCache

\* the edge:* branch up to `await loadNotes(true)`
EdgeBranch(event) ==
  /\ detailCache' = MapDeleteAll(detailCache, extractEdgeNodeIds(event))
  /\ forcedDetailRefreshId' =
       IF selectedIdRef \in extractEdgeNodeIds(event)
       THEN selectedIdRef
       ELSE forcedDetailRefreshId
  /\ stale' = (stale \/ (selectedIdRef \in extractEdgeNodeIds(event)
                         /\ forcedDetailRefreshId # selectedIdRef))
  /\ UNCHANGED <<contentCache, forcedRefreshId>>

\* loadNotes(true) up to its await: it returns at once while a load is running
ReloadStarts(event) ==
  /\ ~loadingRef
  /\ IdleSlots(requests) # {}
  /\ requests' = Issue(requests, ListCall(TRUE))
  /\ loadingRef' = TRUE
  /\ awaiting' = event
  /\ UNCHANGED handled

ReloadSkipped(event) ==
  /\ loadingRef
  /\ handled' = HandlerReturn(event, "done", "skipped")
  /\ UNCHANGED <<loadingRef, awaiting>>

\* the handler the pane passes to subscribeToEvents, up to its first await
Handler(event) ==
  /\ Quiescent
  /\ delivered < MaxFrames
  /\ delivered' = delivered + 1
  /\ IF ~active \/ ~IsEvent(event)
     THEN /\ handled' = HandlerReturn(event, "skipped", "none")
          /\ UNCHANGED <<contentCache, detailCache, requests, loadingRef, forcedRefreshId,
                         forcedDetailRefreshId, stale, awaiting>>
     ELSE CASE TypeFamily(Get(event, "type").v) = "edge" ->
                 /\ EdgeBranch(event)
                 /\ \/ ReloadStarts(event)
                    \/ ReloadSkipped(event) /\ UNCHANGED requests
            [] TypeFamily(Get(event, "type").v) = "node" ->
                 \/ /\ ReloadStarts(event)
                    /\ UNCHANGED <<contentCache, detailCache, forcedRefreshId,
                                   forcedDetailRefreshId, stale>>
                 \/ /\ ReloadSkipped(event)
                    /\ NodeBranch(event, requests, stale)
            [] OTHER ->
                 /\ handled' = HandlerReturn(event, "ignored", "none")
                 /\ UNCHANGED <<contentCache, detailCache, requests, loadingRef,
                                forcedRefreshId, forcedDetailRefreshId, stale, awaiting>>
  /\ UNCHANGED <<fnVars, viewVars, timeoutMs, settled, active, notesState, selectedId,
                 selectedIdRef>>

\* the transport hands an event to the handler of the pane
Deliver(event) == Handler(event) /\ UNCHANGED streamVars

\* loadNotes(refresh) after its await, and then the handler that awaited it
LoadNotesSettled ==
  LET refresh == settled.cont = "reloadNotes"
      ok == settled.outcome.ok
      kept == refresh /\ notesState.status = "ready"
      dirty == stale \/ (active /\ (ok \/ ~kept))
      reload == IF ok THEN "ok" ELSE "failed"
  IN  /\ notesState' =
           IF ~active THEN notesState
           ELSE IF ok THEN [status |-> "ready", response |-> settled.outcome.value]
                ELSE IF kept THEN notesState
                     ELSE [status |-> "error", response |-> Undef]
      /\ loadingRef' = FALSE
      /\ awaiting' = Undef
      /\ IF awaiting = Undef
         THEN /\ stale' = dirty
              /\ UNCHANGED <<contentCache, detailCache, requests, forcedRefreshId,
                             forcedDetailRefreshId, handled>>
         ELSE IF TypeFamily(Get(awaiting, "type").v) = "edge"
              THEN /\ handled' = HandlerReturn(awaiting, "done", reload)
                   /\ stale' = dirty
                   /\ UNCHANGED <<contentCache, detailCache, requests, forcedRefreshId,
                                  forcedDetailRefreshId>>
              ELSE IF ~active
                   THEN /\ handled' = HandlerReturn(awaiting, "stopped", reload)
                        /\ stale' = dirty
                        /\ UNCHANGED <<contentCache, detailCache, requests, forcedRefreshId,
                                       forcedDetailRefreshId>>
                   ELSE /\ handled' = HandlerReturn(awaiting, "done", reload)
                        /\ NodeBranch(awaiting, requests, dirty)
      /\ UNCHANGED <<active, selectedId, selectedIdRef, delivered>>

\* the code that awaited the settled call runs
PaneResume ==
  /\ ~Quiescent
  /\ settled' = IdleCall
  /\ IF settled.cont \in {"loadNotes", "reloadNotes"}
     THEN LoadNotesSettled
     ELSE UNCHANGED <<contentCache, detailCache, requests, paneVars>>
  /\ UNCHANGED <<streamVars, fnVars, viewVars, timeoutMs>>

\* React renders the pending updates and runs the effects: the validation of the
\* selection, the refs, and the fetch of the selected node
Render ==
  /\ Quiescent
  /\ active
  /\ stale
  /\ LET id == ValidSelection(notesState, selectedId)
         contentForceRefresh == id # "" /\ forcedRefreshId = id
         detailForceRefresh == id # "" /\ forcedDetailRefreshId = id
         content == IF id # "" /\ (contentForceRefresh \/ ~Truthy(getCachedNodeContent(id)))
                    THEN <<StartedFor("content", id, "display")>>
                    ELSE <<>>
         detail == IF id # "" /\ (detailForceRefresh \/ id \notin DOMAIN detailCache)
                   THEN <<StartedFor("detail", id, "display")>>
                   ELSE <<>>
     IN  /\ Cardinality(IdleSlots(requests)) >= Len(content \o detail)
         /\ selectedId' = id
         /\ selectedIdRef' = id
         /\ forcedRefreshId' = IF contentForceRefresh THEN "" ELSE forcedRefreshId
         /\ forcedDetailRefreshId' = IF detailForceRefresh THEN "" ELSE forcedDetailRefreshId
         /\ contentCache' = IF contentForceRefresh
                            THEN MapDelete(contentCache, id)
                            ELSE contentCache
         /\ detailCache' = IF detailForceRefresh
                           THEN MapDelete(detailCache, id)
                           ELSE detailCache
         /\ requests' = IssueAll(requests, content \o detail)
         /\ stale' = (contentForceRefresh \/ detailForceRefresh)
  /\ UNCHANGED <<streamVars, fnVars, viewVars, timeoutMs, settled, active, loadingRef, notesState,
                 awaiting, delivered, handled>>

\* the cleanup of the subscription effect: active = false; unsubscribe()
Unmount ==
  /\ Quiescent
  /\ active
  /\ active' = FALSE
  /\ unsubscribe
  /\ UNCHANGED <<fnVars, clientVars, viewVars, loadingRef, notesState, selectedId, selectedIdRef,
                 forcedRefreshId, forcedDetailRefreshId, stale, awaiting, delivered, handled>>

PaneStatuses == {200}

\* the bodies the server sends from the endpoint of a request
PaneBodies(kind) == IF kind = "list" THEN {TxtList, TxtListArray} ELSE {TxtContent}

PaneTexts == {TxtList, TxtListArray, TxtContent}

\* the body of the response to request r has arrived
PaneResponseBody(r, text) ==
  /\ text \in PaneBodies(requests[r].kind)
  /\ ResponseBody(r, text)

\* the pane after its first render: the effects have run once, so the list is
\* being loaded and the subscription has been made without options.retryDelayMs
PaneInit ==
  /\ StreamInit
  /\ optRetryDelayMs = Undef
  /\ FnIdle
  /\ timeoutMs = DEFAULT_TIMEOUT_MS
  /\ contentCache = EmptyCache
  /\ detailCache = EmptyCache
  /\ requests = [r \in 1..MaxRequests |-> IF r = 1 THEN ListCall(FALSE) ELSE IdleCall]
  /\ settled = IdleCall
  /\ active = TRUE
  /\ loadingRef = TRUE
  /\ notesState = [status |-> "loading", response |-> Undef]
  /\ selectedId = ""
  /\ selectedIdRef = ""
  /\ forcedRefreshId = ""
  /\ forcedDetailRefreshId = ""
  /\ stale = FALSE
  /\ awaiting = Undef
  /\ delivered = 0
  /\ handled = NoHandler
  /\ ViewIdle

PaneNext ==
  \/ \E event \in PaneEvents : Deliver(event)
  \/ \E r \in 1..MaxRequests, status \in PaneStatuses : ResponseHeaders(r, status)
  \/ \E r \in 1..MaxRequests, text \in PaneTexts : PaneResponseBody(r, text)
  \/ \E r \in 1..MaxRequests : TransportFailure(r)
  \/ \E r \in 1..MaxRequests : RequestTimeout(r)
  \/ PaneResume
  \/ Render
  \/ Unmount

SpecPane == PaneInit /\ [][PaneNext]_vars

\* a call settles in this step
SettleStep == settled.pc = "idle" /\ settled'.pc = "done"

\* the ways a fetch fails: no node id, a timeout, a status that is not 2xx (0: no
\* response at all), a body that is not JSON, a body that declares success:false
FailedFetch(call) ==
  \/ call.id = ""
  \/ /\ call.timer # "none"
     /\ \/ call.timer = "fired"
        \/ call.status \notin 200..299
        \/ call.status # 204 /\ (~JsonParse(call.body).ok \/ BodyDeclaresFailure(call.body))

CachesUntouched == UNCHANGED <<contentCache, detailCache>>

MissIsAbsent ==
  \A id \in NodeIds \cup {""} :
    /\ id \notin DOMAIN contentCache => getCachedNodeContent(id) = Undef
    /\ id \notin DOMAIN detailCache => getCachedNodeDetail(id) = Undef

C24_RejectedLeavesCaches ==
  [][SettleStep /\ ~settled'.outcome.ok => CachesUntouched]_vars

\* the call made in this step is answered from the cache, without a request
FromCache(kind, value) ==
  /\ UNCHANGED requests
  /\ settled' = SettledCall(kind, settled'.id, Resolved(value))

\* what a call does with forceRefresh, and what a successful one leaves
ForceRefreshRule ==
  \A r \in 1..MaxRequests :
    /\ GetNodeContent(r, "n1", TRUE) =>
         requests' = [requests EXCEPT ![r] = StartedCall("content", "n1")]
    /\ GetNodeDetail(r, "n1", TRUE) =>
         requests' = [requests EXCEPT ![r] = StartedCall("detail", "n1")]
    /\ StoreStep("content", "n1") => contentCache'["n1"] = settled'.outcome.value
    /\ StoreStep("detail", "n1") => detailCache'["n1"] = settled'.outcome.value

\* what a call does without forceRefresh when `usable` says the content entry
\* can be used
CachedRule(usable) ==
  \A r \in 1..MaxRequests :
    /\ (GetNodeContent(r, "n1", FALSE) /\ usable) => FromCache("content", contentCache["n1"])
    /\ (GetNodeDetail(r, "n1", FALSE) /\ "n1" \in DOMAIN detailCache) =>
         FromCache("detail", detailCache["n1"])

\* C25: a getNodeContent / getNodeDetail call with forceRefresh always starts a
\* request, also when the cache holds an entry for the id, and on success the
\* entry is replaced by the new value; a call without forceRefresh starts no
\* request and returns the cached value when the id has a detail entry, or a
\* content entry whose value is not falsy (an undefined content, as stored after
\* a 204 response, is fetched again).
C25_ForceRefresh ==
  [][ForceRefreshRule /\ CachedRule(Truthy(getCachedNodeContent("n1")))]_vars

\* every slot holds a content call for n1 while the cache holds a usable content
\* for n1: the call started last was made with forceRefresh
C25_Witness ==
  /\ Truthy(getCachedNodeContent("n1"))
  /\ \A r \in 1..MaxRequests : requests[r].pc = "fetch" /\ requests[r].kind = "content"

\* C25 as stated: without forceRefresh every present entry is returned without
\* a request
C25_PresentEntryIsReturned ==
  [][ForceRefreshRule /\ CachedRule("n1" \in DOMAIN contentCache)]_vars

\* the call that has just settled got a response
Responded == settled.pc = "done" /\ settled.timer # "none" /\ settled.status # 0

\* C27: a response whose status is not 2xx makes the call fail with the error
\* that carries the status and the text of the body (empty when the body could
\* not be read), whatever the body says; a 204 response resolves the request
\* with an empty result and no body is read; any other 2xx response whose body
\* arrived is JSON-decoded and unwrapped.
C27_StatusBeforeBody ==
  Responded =>
    /\ settled.status \notin 200..299 =>
         settled.outcome = HttpError(settled.status, settled.body)
    /\ settled.status = 204 =>
         settled.body = <<>> /\ settled.outcome = CallResult(settled, Resolved(Undef))
    /\ (settled.status \in 200..299 /\ settled.status # 204 /\ settled.body # <<>>) =>
         settled.outcome = CallResult(settled, JsonResult(settled.body))

\* a 500 response whose body is a success envelope has failed with the status
\* and that text
C27_Witness ==
  /\ Responded
  /\ settled.status = 500
  /\ settled.body = TxtContentEnvelope
  /\ settled.outcome = HttpError(500, TxtContentEnvelope)

(***************************************************************************)
(* The request methods, each answered with every status and every body of  *)
(* the model, whatever the endpoint.                                       *)
(***************************************************************************)
Methods == {"health", "stats", "list", "tags", "content", "detail"}

MethodBodies == {TxtContent, TxtList, TxtListArray, TxtFailure, TxtGarbage}

\* getHealth(), getStats(), listNodes(), listTags() up to their await
MethodCall(r, kind) ==
  /\ FreeSlot(r)
  /\ requests' = [requests EXCEPT ![r] = StartedCall(kind, "")]
  /\ UNCHANGED <<timeoutMs, contentCache, detailCache, settled, outsideClient>>

MethodsNext ==
  \/ \E r \in 1..MaxRequests, kind \in Methods \ {"content", "detail"} : MethodCall(r, kind)
  \/ \E r \in 1..MaxRequests, id \in {"n1", ""} : GetNodeContent(r, id, TRUE)
  \/ \E r \in 1..MaxRequests, id \in {"n1", ""} : GetNodeDetail(r, id, TRUE)
  \/ \E r \in 1..MaxRequests, status \in Statuses : ResponseHeaders(r, status)
  \/ \E r \in 1..MaxRequests, text \in MethodBodies : ResponseBody(r, text)
  \/ \E r \in 1..MaxRequests : TransportFailure(r)
  \/ \E r \in 1..MaxRequests : RequestTimeout(r)
  \/ Resume

SpecMethods == CacheInit /\ [][MethodsNext]_vars

\* the failures the error taxonomy lets through to the caller: a missing node id,
\* a timeout, a status that is not 2xx (0: no response), a body that is not JSON
\* (none: the connection failed), an envelope with success:false
HardCase(call) ==
  \/ call.kind \in {"content", "detail"} /\ call.id = ""
  \/ call.timer = "fired"
  \/ call.status \notin 200..299
  \/ ~JsonParse(call.body).ok
  \/ BodyDeclaresFailure(call.body)

\* C26: a call of a request method fails only for a missing node id, a timeout,
\* a transport error (status not 2xx, network failure, malformed JSON) or an
\* envelope with success:false; for every other response the method resolves.
C26_OnlyHardCasesFail ==
  (settled.pc = "done" /\ ~settled.outcome.ok) => HardCase(settled)

(***************************************************************************)
(* The pane on its event stream: the frames of the socket drive the        *)
(* handler.                                                                *)
(***************************************************************************)

\* mutant: the stream holds an event back while an earlier handler invocation
\* is still awaiting its reload
PaneMessage_Waits(s, data) ==
  /\ Quiescent
  /\ sockets[s].readyState = "OPEN"
  /\ Len(received) < MaxFrames
  /\ received' = Append(received, data)
  /\ IF OnMessage(data).handled = <<>> \/ awaiting # Undef
     THEN UNCHANGED <<handlerCalls, fnVars, clientVars, paneVars, viewVars>>
     ELSE /\ handlerCalls' = Append(handlerCalls, [frame |-> Len(received) + 1,
                                                  event |-> OnMessage(data).handled[1]])
          /\ Handler(OnMessage(data).handled[1])
  /\ UNCHANGED <<optRetryDelayMs, closed, socket, reconnectTimer, sockets, timers,
                 unsubCalled, statusLog, errorCalls, escaped>>

\* the socket's 'message' event: the callback decodes the frame and calls
\* handler(event) without awaiting the promise it returns
PaneMessage(s, data) ==
  /\ Quiescent
  /\ MessageCallback(s, data)
  /\ IF OnMessage(data).handled = <<>>
     THEN UNCHANGED <<fnVars, clientVars, paneVars, viewVars>>
     ELSE Handler(OnMessage(data).handled[1])

\* the frames the server sends the pane: two events and a broken text
PaneFrames == {data \in Frames : data.repr \in {"fragments", "arraybuffer"} \/ data.bytes = TxtGarbage}

StreamedPaneNext ==
  \/ \E s \in 1..Len(sockets) : SocketOpen(s)
  \/ \E s \in 1..Len(sockets), data \in PaneFrames : PaneMessage(s, data)
  \/ \E r \in 1..MaxRequests, status \in PaneStatuses : ResponseHeaders(r, status)
  \/ \E r \in 1..MaxRequests, text \in PaneTexts : PaneResponseBody(r, text)
  \/ \E r \in 1..MaxRequests : TransportFailure(r)
  \/ \E r \in 1..MaxRequests : RequestTimeout(r)
  \/ PaneResume
  \/ Render

SpecStreamedPane == PaneInit /\ [][StreamedPaneNext]_vars

\* the event is a node:deleted event and the id the handler resolves is a string
IsDeletedEvent(event) ==
  /\ IsEvent(event)
  /\ Get(event, "type") = Str("node:deleted")
  /\ DeletedId(event).t = "str"

\* a call of the handler returns in this step: at once when it is delivered, or
\* when the reload it awaited has settled
HandlerReturns ==
  \/ delivered' # delivered /\ awaiting' = awaiting
  \/ awaiting # Undef /\ awaiting' = Undef

HandlerOrder ==
  /\ \A i \in 1..Len(handlerCalls) :
       /\ handlerCalls[i].frame \in 1..Len(received)
       /\ OnMessage(received[handlerCalls[i].frame]).handled = <<handlerCalls[i].event>>
  /\ \A i \in 1..(Len(handlerCalls) - 1) : handlerCalls[i].frame < handlerCalls[i + 1].frame

\* no received event is held back, whatever work earlier invocations left
NoFrameWaits ==
  /\ \A n \in 1..Len(received) :
       OnMessage(received[n]).handled # <<>> =>
         \E i \in 1..Len(handlerCalls) : handlerCalls[i].frame = n
  /\ delivered = Len(handlerCalls)

Running(kind, cont) ==
  {r \in 1..MaxRequests : /\ requests[r].pc \in {"fetch", "text", "json"}
                          /\ requests[r].kind = kind
                          /\ requests[r].cont = cont}

\* C18: the handler is invoked for the event frames in the order the frames were
\* received, and the invocation for a frame happens in the step that receives
\* the frame, also while the list reload or the re-fetch an earlier invocation
\* started is still in flight.
C18_InOrderWithoutWaiting == HandlerOrder /\ NoFrameWaits

\* the first invocation still awaits its list reload while the re-fetch the
\* second one started is in flight as well
C18_Witness ==
  /\ Len(handlerCalls) = 2
  /\ awaiting = handlerCalls[1].event
  /\ Running("list", "reloadNotes") # {}
  /\ handlerCalls[2].event = EvUpdated
  /\ selectedIdRef = ""
  /\ \E r \in Running("content", "display") : requests[r].id = "n1"

(***************************************************************************)
(* The pane next to a server whose node n1 changes: every event of the     *)
(* stream is a node:updated for n1, and a response carries the content the *)
(* server holds when it answers.                                           *)
(***************************************************************************)
UpdatedFrames == {data \in Frames : data.repr = "arraybuffer"}

\* the body of the response to request r has arrived
ServerResponseBody(r) ==
  /\ InFlight(r)
  /\ ResponseBody(r, IF requests[r].kind = "list" THEN TxtListArray ELSE TxtContentAt(delivered))

FreshPaneNext ==
  \/ \E s \in 1..Len(sockets) : SocketOpen(s)
  \/ \E s \in 1..Len(sockets), data \in UpdatedFrames : PaneMessage(s, data)
  \/ \E r \in 1..MaxRequests : ResponseHeaders(r, 200)
  \/ \E r \in 1..MaxRequests : ServerResponseBody(r)
  \/ \E r \in 1..MaxRequests : TransportFailure(r)
  \/ PaneResume
  \/ Render

SpecFreshPane == PaneInit /\ [][FreshPaneNext]_vars

\* nothing is left to do: no call in flight, no handler suspended, no render due
AllWorkDone ==
  /\ Quiescent
  /\ \A r \in 1..MaxRequests : requests[r].pc = "idle"
  /\ awaiting = Undef
  /\ ~stale

\* the node a node:created / node:updated event names
UpdatedNode(event) ==
  IF /\ Get(event, "type").v \in {"node:created", "node:updated"}
     /\ Truthy(Get(event, "node"))
     /\ Get(Get(event, "node"), "id").t = "str"
  THEN Get(Get(event, "node"), "id").v
  ELSE ""

Current == Str(VersionName(delivered))

\* C28: once the handler of the pane has handled the node:created /
\* node:updated event delivered last and its work has finished, neither cache
\* holds for the node of the event a value older than the event: the content
\* entry and the detail entry are absent or hold what the server answered after
\* the event arrived, whether or not the node is selected and also when the
\* re-fetch failed.
C28_NoStaleEntryAfterUpdate ==
  (active /\ AllWorkDone /\ handlerCalls # <<>>
     /\ UpdatedNode(handlerCalls[Len(handlerCalls)].event) # "") =>
    LET X == UpdatedNode(handlerCalls[Len(handlerCalls)].event)
    IN  /\ X \in DOMAIN detailCache => detailCache[X].body = Current
        /\ X \in DOMAIN contentCache => Get(contentCache[X], "body") = Current

\* the part of C28 that holds: the detail entry
C28_NoStaleDetailAfterUpdate ==
  (active /\ AllWorkDone /\ handlerCalls # <<>>
     /\ UpdatedNode(handlerCalls[Len(handlerCalls)].event) # "") =>
    LET X == UpdatedNode(handlerCalls[Len(handlerCalls)].event)
    IN  X \in DOMAIN detailCache => detailCache[X].body = Current

(***************************************************************************)
(* The pane and the edge:* events.  One edge, e1, runs from n1 to n2; the  *)
(* events are the four edge:* members of ForestEvent for that edge.  The   *)
(* three that carry the edge name its ends in the three ways               *)
(* extractEdgeNodeIds reads; edge:deleted carries the edge's id only.      *)
(***************************************************************************)
EvEdgeAccepted ==
  ObjOf({<<"type", Str("edge:accepted")>>,
         <<"edge", ObjOf({<<"fromId", Str("n1")>>, <<"toId", Str("n2")>>})>>})

EvEdgeRejected ==
  ObjOf({<<"type", Str("edge:rejected")>>,
         <<"edge", ObjOf({<<"source", ObjOf({<<"id", Str("n1")>>})>>,
                          <<"targetId", Str("n2")>>})>>})

EvEdgeDeleted ==
  ObjOf({<<"type", Str("edge:deleted")>>, <<"edgeId", Str("e1")>>})

EdgeEvents == {EvEdge, EvEdgeAccepted, EvEdgeRejected, EvEdgeDeleted}

\* the nodes edge e1 connects
EdgeEnds == {"n1", "n2"}

EdgePaneNext ==
  \/ \E event \in EdgeEvents : Deliver(event)
  \/ \E r \in 1..MaxRequests : ResponseHeaders(r, 200)
  \/ \E r \in 1..MaxRequests, text \in PaneTexts : PaneResponseBody(r, text)
  \/ \E r \in 1..MaxRequests : TransportFailure(r)
  \/ PaneResume
  \/ Render

SpecEdgePane == PaneInit /\ [][EdgePaneNext]_vars

\* the step in which the handler takes `event` and runs up to its first await
\* leaves no detail entry for an end of the edge and leaves the content cache
EvictsEnds(event) ==
  (active /\ Deliver(event)) =>
    /\ \A id \in EdgeEnds : id \notin DOMAIN detailCache'
    /\ contentCache' = contentCache

\* C29: for every edge:* event (created, accepted, rejected, deleted) handled
\* while the subscription is active, the detail-cache entries of the nodes the
\* edge connects are gone when the handler reaches `await loadNotes(true)`, and
\* the event changes no content-cache entry.
C29_EdgeEventsEvictDetail ==
  [][\A event \in EdgeEvents : EvictsEnds(event)]_vars

\* the part of C29 that holds: the events that carry the edge
C29_CarriedEdgeEvictsDetail ==
  [][\A event \in EdgeEvents \ {EvEdgeDeleted} : EvictsEnds(event)]_vars

\* an edge:deleted event has been handled and the detail of n1 is still cached
C29_DeletedEdgeKeepsDetail ==
  /\ active
  /\ handled.event = EvEdgeDeleted \/ awaiting = EvEdgeDeleted
  /\ "n1" \in DOMAIN detailCache

(***************************************************************************)
(* The list reload an event leads to.  loadNotes(true) is the only call of *)
(* the handler that requests the node list, the handler makes it before    *)
(* its first await, and loadNotes returns at once when loadingRef.current  *)
(* is set.                                                                 *)
(***************************************************************************)
\* this step issues a listNodes request for a reload
ListIssued ==
  \E r \in 1..MaxRequests :
    /\ requests[r].pc = "idle"
    /\ requests'[r] = ListCall(TRUE)

\* the node:* and edge:* events
ListEvents ==
  {event \in PaneEvents \cup EdgeEvents :
     TypeFamily(Get(event, "type").v) \in {"node", "edge"}}

\* no event follows the one this step delivers
LastDelivery(event) == Deliver(event) /\ delivered' = MaxFrames

\* a reload is requested by the handler of an event and by nothing else, so
\* after the last event no listNodes request is issued
OnlyEventsReload ==
  [][ListIssued => \E event \in ListEvents : active /\ Deliver(event)]_vars

\* C30: every node:* or edge:* event handled while the subscription is active
\* leads to a re-fetch of the node list, so that the list shown once all work
\* has finished comes from a listNodes request issued at or after the delivery
\* of the event, also when a list load is in flight when the event arrives:
\* the handler of the event after which no other arrives issues the request.
C30_EventRefetchesList ==
  [][\A event \in ListEvents : (active /\ LastDelivery(event)) => ListIssued]_vars

\* the part of C30 that holds: an event that arrives while no list load is in
\* flight
C30_IdleEventRefetchesList ==
  [][\A event \in ListEvents :
       (active /\ ~loadingRef /\ Deliver(event)) => ListIssued]_vars

\* the handler of the last event returned from loadNotes at once, and the list
\* shown at the end of all work was requested before the event arrived
C30_ReloadSkipped ==
  /\ active
  /\ AllWorkDone
  /\ delivered = MaxFrames
  /\ handled.event \in ListEvents
  /\ handled.reload = "skipped"
  /\ notesState.status = "ready"

(***************************************************************************)
(* The totals of a node detail.  The payload gives its edge list and its   *)
(* suggestion list in one of the accepted forms: a plain array, an         *)
(* {items:[...]} wrapper or an {edges:[...]} wrapper, the wrappers with or *)
(* without a `total` of their own.                                         *)
(***************************************************************************)
\* a total that differs from every length of the lists below
StatedTotal == Num(MaxCount + 5)

ListForms ==
  UNION { {list,
           ObjOf({<<"items", list>>}),
           ObjOf({<<"items", list>>, <<"total", StatedTotal>>}),
           ObjOf({<<"items", list>>, <<"total", Str("many")>>}),
           ObjOf({<<"edges", list>>}),
           ObjOf({<<"edges", list>>, <<"total", StatedTotal>>})} : list \in EdgeLists }

TotalsPayloads ==
  { ObjOf({<<"edges", e>>, <<"suggestions", sg>>} \cup i) :
      e \in ListForms, sg \in ListForms, i \in Field("id", {Str("n2")}) }

TotalsInit ==
  /\ StreamIdle
  /\ ClientIdle
  /\ PaneIdle
  /\ fnArg \in [payload : TotalsPayloads, nodeId : NodeIds]
  /\ fnRes = Undef
  /\ fnPc = "call"

\* const detail = this.normalizeNodeDetail(payload, id), for a payload above
CallDetailTotals ==
  /\ fnArg.payload \in TotalsPayloads
  /\ CallNormalizeNodeDetail

SpecTotals == TotalsInit /\ [][CallDetailTotals]_vars

\* the list of a form
ListOf(form) ==
  IF form.t = "arr" THEN form.v
  ELSE IF HasKey(form, "items") THEN Get(form, "items").v ELSE Get(form, "edges").v

\* the explicit numeric total of the list when it has one, the number of
\* extracted records otherwise
TotalOf(form, records) ==
  IF form.t = "obj" /\ Get(form, "total").t = "num"
  THEN Get(form, "total")
  ELSE Num(Len(records))

TotalsRule(suggestionForms) ==
  (fnPc = "done" /\ fnArg.payload \in TotalsPayloads
     /\ Get(fnArg.payload, "suggestions") \in suggestionForms) =>
    LET e == Get(fnArg.payload, "edges")
        sg == Get(fnArg.payload, "suggestions")
    IN  /\ Len(fnRes.edges) = Len(ListOf(e))
        /\ Len(fnRes.suggestions) = Len(ListOf(sg))
        /\ fnRes.edgesTotal = TotalOf(e, fnRes.edges)
        /\ fnRes.suggestionsTotal = TotalOf(sg, fnRes.suggestions)
        /\ fnRes.id = IF HasKey(fnArg.payload, "id")
                      THEN Get(fnArg.payload, "id").v
                      ELSE fnArg.nodeId

\* C31: for the edge list and the suggestion list of a detail payload, in each
\* accepted form (plain array, {items:[...]}, {edges:[...]}), edgesTotal and
\* suggestionsTotal are the explicit numeric total of the list when it has one
\* and the number of extracted records otherwise; the id of the detail is the
\* id of the payload, or the requested id when the payload has none.
C31_TotalsAndId == TotalsRule(ListForms)

\* the part of C31 that holds: every form of the edge list, and every form of
\* the suggestion list but the {edges:[...]} wrapper that states a total
C31_TotalsButWrappedSuggestions ==
  TotalsRule({form \in ListForms : ~(HasKey(form, "edges") /\ HasKey(form, "total"))})

\* the suggestions came as {edges:[...], total} and the stated total is lost
C31_WrappedTotalLost ==
  /\ fnPc = "done"
  /\ fnArg.payload \in TotalsPayloads
  /\ HasKey(Get(fnArg.payload, "suggestions"), "edges")
  /\ Get(Get(fnArg.payload, "suggestions"), "total") = StatedTotal
  /\ fnRes.suggestionsTotal # StatedTotal

(***************************************************************************)
(* The precedence of the stats counts.  A payload gives one count in any   *)
(* combination of its places: the flat top-level field, the field of the   *)
(* `counts` wrapper, and a nested section with a total and an accepted or  *)
(* suggested number.  Every place holds a different number.                *)
(***************************************************************************)
CountSections ==
  { ObjOf(t \cup a \cup sg) :
      t \in Field("total", {Num(3)}),
      a \in Field("accepted", {Num(4)}),
      sg \in Field("suggested", {Num(5)}) }

CountFields == {"nodes", "edges", "tags"}

\* {f: 1 or a section, counts: {f: 2 or a section}}
FieldPayloads(f) ==
  { ObjOf(top \cup cnt) :
      top \in Field(f, {Num(1)} \cup CountSections),
      cnt \in Field("counts", {ObjOf({<<f, x>>}) : x \in {Num(2)} \cup CountSections}) }

\* {suggestedEdges: 1, counts: {suggested: 2}, suggestions: section, edges: section}
SuggestedPayloads ==
  { ObjOf(top \cup cnt \cup sec \cup e) :
      top \in Field("suggestedEdges", {Num(1)}),
      cnt \in Field("counts", {ObjOf({<<"suggested", Num(2)>>})}),
      sec \in Field("suggestions", CountSections),
      e \in Field("edges", CountSections) }

PrecedencePayloads == UNION {FieldPayloads(f) : f \in CountFields} \cup SuggestedPayloads

PrecedenceInit ==
  /\ StreamIdle
  /\ ClientIdle
  /\ PaneIdle
  /\ fnArg \in PrecedencePayloads
  /\ fnRes = Undef
  /\ fnPc = "call"

\* normalizeStats(payload), for a payload above
CallStatsPrecedence ==
  /\ fnArg \in PrecedencePayloads
  /\ CallNormalizeStats

SpecPrecedence == PrecedenceInit /\ [][CallStatsPrecedence]_vars

\* the number at a place, if the place holds a number
NumberAt(value) == IF value.t = "num" THEN value ELSE Undef

\* the nested section of field f: the object given for f at the top level or,
\* failing that, in the counts wrapper
SectionOf(p, f) ==
  IF Get(p, f).t = "obj" THEN Get(p, f)
  ELSE IF Get(Get(p, "counts"), f).t = "obj" THEN Get(Get(p, "counts"), f) ELSE Undef

\* flat field, then counts wrapper, then section.total, then section.accepted
StatedCount(p, f) ==
  Nullish4(NumberAt(Get(p, f)), NumberAt(Get(Get(p, "counts"), f)),
           NumberAt(Get(SectionOf(p, f), "total")),
           NumberAt(Get(SectionOf(p, f), "accepted")))

\* flat field, then counts wrapper, then the total of the suggestions section,
\* then the `suggested` of the edges section
StatedSuggested(p) ==
  Nullish4(NumberAt(Get(p, "suggestedEdges")), NumberAt(Get(Get(p, "counts"), "suggested")),
           NumberAt(Get(SectionOf(p, "suggestions"), "total")),
           NumberAt(Get(SectionOf(p, "edges"), "suggested")))

PrecedenceRule(fields, suggested) ==
  (fnPc = "done" /\ fnArg \in PrecedencePayloads) =>
    /\ \A f \in fields :
         fnArg \in FieldPayloads(f) =>
           (CASE f = "nodes" -> fnRes.nodes
              [] f = "edges" -> fnRes.edges
              [] f = "tags" -> fnRes.tags) = StatedCount(fnArg, f)
    /\ fnArg \in suggested => fnRes.suggestedEdges = StatedSuggested(fnArg)

\* C32: each of nodes, edges and tags is the first defined number in the order
\* flat top-level field, field of the counts wrapper, total of the nested
\* section, accepted of that section; suggestedEdges is the first defined number
\* in the order flat field, counts wrapper, total of the suggestions section,
\* suggested of the edges section; a later place never overrides an earlier one.
C32_StatsPrecedence == PrecedenceRule(CountFields, SuggestedPayloads)

\* the part of C32 that holds: nodes and edges, and suggestedEdges when the
\* payload has a suggestions section or no total in its edges section
C32_NodesAndEdgesPrecedence ==
  PrecedenceRule({"nodes", "edges"},
                 {p \in SuggestedPayloads :
                    HasKey(p, "suggestions") \/ ~HasKey(Get(p, "edges"), "total")})

\* a tags section with an accepted number and no total yields no tags count
C32_TagsAcceptedUnread ==
  /\ fnPc = "done"
  /\ fnArg \in FieldPayloads("tags")
  /\ StatedCount(fnArg, "tags") = Num(4)
  /\ fnRes.tags = Undef

\* a call of getNodeContent or getNodeDetail with the empty id, in this step
EmptyIdCall ==
  \E r \in 1..MaxRequests, forceRefresh \in BOOLEAN :
    GetNodeContent(r, "", forceRefresh) \/ GetNodeDetail(r, "", forceRefresh)

\* the call is rejected at once, no request is made, the caches stay
RejectedAtOnce ==
  /\ settled'.pc = "done"
  /\ settled'.id = ""
  /\ ~settled'.outcome.ok
  /\ settled'.outcome.message.text = "Node id is required"
  /\ settled'.timer = "none"
  /\ UNCHANGED <<requests, contentCache, detailCache>>

\* no request for a node is in flight without an id
NoRequestWithoutId ==
  \A r \in 1..MaxRequests :
    requests[r].kind \in {"content", "detail"} => requests[r].id # ""

\* C33: getNodeContent and getNodeDetail called with an empty node id fail with
\* 'Node id is required' before any HTTP request is issued, with or without
\* forceRefresh, and leave both caches unchanged.
C33_EmptyIdRejected ==
  /\ [][EmptyIdCall => RejectedAtOnce]_vars
  /\ []NoRequestWithoutId

\* a forced call without an id has just been rejected while the content of n1
\* is cached and another call is in flight
C33_Witness ==
  /\ settled.pc = "done"
  /\ settled.id = ""
  /\ ~settled.outcome.ok
  /\ "n1" \in DOMAIN contentCache
  /\ \E r \in 1..MaxRequests : requests[r].pc = "fetch"

(***************************************************************************)
(* The list of the pane with its query.  loadNotes reads the search text   *)
(* and the page from filtersRef and pageRef; the effect that calls         *)
(* loadNotes(false) when filters or page changed is declared before the    *)
(* two effects that copy filters and page to the refs, and React runs the  *)
(* effects of a render in the order of their declaration.  A key press     *)
(* that sets state is rendered, and its effects are run, in the step of    *)
(* the key press.  The server answers a list request with the total of the *)
(* result at that time; the tag filter, which is handled like the search   *)
(* text, is left out.                                                      *)
(***************************************************************************)
PAGE_SIZE == 20

MaxPage == 2

Searches == {"", "a"}

\* the totals the server reports
Totals == {0, PAGE_SIZE, PAGE_SIZE + 1, 2 * PAGE_SIZE + 1}

\* what a step of the list leaves alone
outsideList ==
  <<streamVars, fnVars, clientVars, selectionVars, favoriteVars, active, selectedId,
    selectedIdRef, forcedRefreshId, forcedDetailRefreshId, stale, awaiting, delivered, handled>>

\* Math.max(0, Math.ceil(total / PAGE_SIZE) - 1)
LastPage(total) ==
  LET pages == (total + PAGE_SIZE - 1) \div PAGE_SIZE
  IN  IF pages > 0 THEN pages - 1 ELSE 0

\* loadNotes(refresh) up to `await client.listNodes(...)`, loadingRef.current
\* being `loading` when it is called
LoadNotes(refresh, loading) ==
  IF loading
  THEN /\ loadingRef' = loading
       /\ UNCHANGED <<notesState, listCall>>
  ELSE /\ loadingRef' = TRUE
       /\ notesState' = IF refresh THEN notesState
                        ELSE [status |-> "loading", response |-> Undef]
       /\ listCall' = [offset |-> pageRef * PAGE_SIZE, search |-> filtersRef,
                       refresh |-> refresh, pending |-> TRUE]

\* the render that shows search f and page p, and its effects in the order of
\* their declaration: loadNotes(false) if filters or page changed, then
\* filtersRef.current = filters and pageRef.current = page
Commit(f, p, loading) ==
  /\ filters' = f
  /\ page' = p
  /\ IF f # filters \/ p # page
     THEN LoadNotes(FALSE, loading)
     ELSE /\ loadingRef' = loading
          /\ UNCHANGED <<notesState, listCall>>
  /\ filtersRef' = f
  /\ pageRef' = p

\* Enter in the search input: setFilters(...); setPage(0)
SubmitSearch(f) ==
  /\ active
  /\ f # filters
  /\ Commit(f, 0, loadingRef)
  /\ UNCHANGED outsideList

\* right arrow / l
NextPage ==
  /\ active
  /\ page < MaxPage
  /\ notesState.status = "ready"
  /\ (page + 1) * PAGE_SIZE < notesState.response.total
  /\ Commit(filters, page + 1, loadingRef)
  /\ UNCHANGED outsideList

\* left arrow / h
PrevPage ==
  /\ active
  /\ page > 0
  /\ Commit(filters, page - 1, loadingRef)
  /\ UNCHANGED outsideList

\* the handler of a node:* or edge:* event calls loadNotes(true)
ReloadNotes ==
  /\ active
  /\ ~loadingRef
  /\ LoadNotes(TRUE, loadingRef)
  /\ UNCHANGED <<page, pageRef, filters, filtersRef, outsideList>>

\* listNodes resolves with a response whose total is `total`
ListResponse(total) ==
  /\ listCall.pending
  /\ IF total < listCall.offset /\ pageRef > 0
     THEN \* loadingRef.current = false; setPage(lastPage); return
          IF LastPage(total) # page
          THEN Commit(filters, LastPage(total), FALSE)
          ELSE /\ loadingRef' = FALSE
               /\ listCall' = NoListCall
               /\ UNCHANGED <<notesState, page, pageRef, filters, filtersRef>>
     ELSE /\ notesState' = [status |-> "ready",
                            response |-> [total |-> total, offset |-> listCall.offset,
                                          search |-> listCall.search]]
          /\ loadingRef' = FALSE
          /\ listCall' = NoListCall
          /\ UNCHANGED <<page, pageRef, filters, filtersRef>>
  /\ UNCHANGED outsideList

\* listNodes rejects
ListFailure ==
  /\ listCall.pending
  /\ notesState' = IF listCall.refresh /\ notesState.status = "ready"
                   THEN notesState
                   ELSE [status |-> "error", response |-> Undef]
  /\ loadingRef' = FALSE
  /\ listCall' = NoListCall
  /\ UNCHANGED <<page, pageRef, filters, filtersRef, outsideList>>

\* the pane after its first render: loadNotes(false) has been called
ListInit ==
  /\ StreamIdle
  /\ FnIdle
  /\ ClientIdle
  /\ active = TRUE
  /\ loadingRef = TRUE
  /\ notesState = [status |-> "loading", response |-> Undef]
  /\ selectedId = ""
  /\ selectedIdRef = ""
  /\ forcedRefreshId = ""
  /\ forcedDetailRefreshId = ""
  /\ stale = FALSE
  /\ awaiting = Undef
  /\ delivered = 0
  /\ handled = NoHandler
  /\ SelectionIdle
  /\ FavoritesIdle
  /\ page = 0
  /\ pageRef = 0
  /\ filters = ""
  /\ filtersRef = ""
  /\ listCall = [offset |-> 0, search |-> "", refresh |-> FALSE, pending |-> TRUE]

ListNext ==
  \/ \E f \in Searches : SubmitSearch(f)
  \/ NextPage
  \/ PrevPage
  \/ ReloadNotes
  \/ \E total \in Totals : ListResponse(total)
  \/ ListFailure

SpecList == ListInit /\ [][ListNext]_vars

\* a response arrives for a page > 0 that starts at or beyond the total: the
\* page becomes the last page there is and the list is requested again
AdjustsPage ==
  \A total \in Totals :
    (ListResponse(total) /\ page > 0 /\ page * PAGE_SIZE >= total) =>
      /\ page' = LastPage(total)
      /\ listCall'.pending

\* the view is at rest on a page that starts before the end of the result
NoPagePastTheEnd ==
  (~listCall.pending /\ notesState.status = "ready" /\ notesState.response.total > 0) =>
    page * PAGE_SIZE < notesState.response.total

\* C34: whenever a list response carries a numeric total and the current page
\* > 0 starts at or beyond it (page * 20 >= total), the page is set to
\* max(0, ceil(total / 20) - 1) and the list is loaded again, so the view never
\* settles on an empty page past the end of a non-empty result.
C34_PageAdjusted == [][AdjustsPage]_vars /\ []NoPagePastTheEnd

\* the refs agree with the state, a reload of page 1 was answered with total
\* 20, and the view rests on page 1, which starts at the end of the result
C34_RestsAtTheEnd ==
  /\ ~listCall.pending
  /\ page = 1 /\ pageRef = 1
  /\ notesState.status = "ready"
  /\ notesState.response.total = PAGE_SIZE
  /\ notesState.response.offset = PAGE_SIZE

\* the list shown at rest answers a request for the current search and page
ShowsCurrentQuery ==
  (~listCall.pending /\ notesState.status = "ready") =>
    /\ notesState.response.search = filters
    /\ notesState.response.offset = page * PAGE_SIZE

\* C36: whenever the search filter or the page changes, the list shown once no
\* list request is in flight is the response to a listNodes request made with
\* the current filters and page, also when the change happens while an earlier
\* list load is in flight.
C36_ListFollowsQuery == []ShowsCurrentQuery

\* the search changed while the first load was in flight, and the list shown
\* at rest is the answer to the request made before the change
C36_ChangeDuringLoad ==
  /\ ~listCall.pending
  /\ filters = "a" /\ filtersRef = "a"
  /\ notesState.status = "ready"
  /\ notesState.response.search = ""

(***************************************************************************)
(* One subscription: its timers and its sockets.                           *)
(***************************************************************************)
\* the sockets whose 'close' event has not fired
LiveSockets == {s \in 1..Len(sockets) : sockets[s].readyState # "CLOSED"}

AtMostOneEach ==
  /\ Cardinality(TimersIn("pending")) <= 1
  /\ Cardinality(LiveSockets) <= 1
  /\ LiveSockets \subseteq {socket}
  /\ TimersIn("pending") \subseteq {reconnectTimer}

\* a timer is scheduled only by the close event of the current socket
TimerFromClose ==
  Len(timers') > Len(timers) =>
    /\ Len(timers') = Len(timers) + 1
    /\ SocketClose(socket)
    /\ LiveSockets' = {}

\* a socket is created only by the reconnect timer firing
SocketFromTimer ==
  Len(sockets') > Len(sockets) =>
    /\ Len(sockets') = Len(sockets) + 1
    /\ reconnectTimer # 0
    /\ TimerFire(reconnectTimer)
    /\ TimersIn("pending")' = {}

\* C35: at every moment a subscription has at most one pending reconnect timer
\* and at most one socket that is not yet closed; a reconnect timer is
\* scheduled only by the close event of the current socket, and a socket is
\* created only by the initial connect or by that timer firing.
C35_OneTimerOneSocket ==
  /\ []AtMostOneEach
  /\ [][TimerFromClose /\ SocketFromTimer]_vars

\* the second socket, created by the first reconnect timer, has closed as well
\* and the second timer is pending
C35_Witness ==
  /\ Len(sockets) = 2
  /\ LiveSockets = {}
  /\ Len(timers) = 2
  /\ timers[1].state = "fired"
  /\ TimersIn("pending") = {2}

(***************************************************************************)
(* The selection effect.  Each run of the effect has its own `cancelled`,  *)
(* set by the cleanup that React runs before the next run and on unmount;  *)
(* the runs are numbered and effectRun is the one not cancelled.  The list *)
(* holds n1 and n2.  A change of the selection, a forced refresh and a new *)
(* list are rendered, and the effect is run again, in one step.  The       *)
(* client settles a promise with the content or the detail, which it has   *)
(* stored in its cache, or with an error.                                  *)
(***************************************************************************)
MaxRuns == 3

ShownList ==
  [status |-> "ready", response |-> listNodes(JsonParse(TxtList).value).value]

\* what a step of the selection leaves alone
outsideSelection ==
  <<streamVars, fnVars, listVars, favoriteVars, timeoutMs, requests, settled, loadingRef,
    notesState, stale, awaiting, delivered, handled>>

\* the promises getNodeContent and getNodeDetail return to run `run` for id
Promises(id, run) ==
  {[kind |-> "content", id |-> id, run |-> run], [kind |-> "detail", id |-> id, run |-> run]}

\* the cleanup of the last run, then the body of the effect for selectedNode id
SelectionEffect(id, contentForceRefresh, detailForceRefresh) ==
  /\ effectRun < MaxRuns
  /\ effectRun' = effectRun + 1
  /\ IF id = ""
     THEN /\ contentState' = Shown("idle", "")
          /\ detailState' = Shown("idle", "")
          /\ UNCHANGED <<contentCache, detailCache, fetches>>
     ELSE /\ contentCache' = IF contentForceRefresh
                             THEN MapDelete(contentCache, id)
                             ELSE contentCache
          /\ detailCache' = IF detailForceRefresh
                            THEN MapDelete(detailCache, id)
                            ELSE detailCache
          /\ contentState' =
               Shown(IF ~contentForceRefresh /\ Truthy(getCachedNodeContent(id))
                     THEN "ready" ELSE "loading", id)
          /\ detailState' =
               Shown(IF ~detailForceRefresh /\ id \in DOMAIN detailCache
                     THEN "ready" ELSE "loading", id)
          /\ fetches' = fetches \cup Promises(id, effectRun + 1)
  /\ forcedRefreshId' = ""
  /\ forcedDetailRefreshId' = ""

\* the selection moves to id ("" when the list has no such node any more)
SelectNode(id) ==
  /\ active
  /\ id # selectedId
  /\ selectedId' = id
  /\ selectedIdRef' = id
  /\ SelectionEffect(id, FALSE, FALSE)
  /\ UNCHANGED <<active, lastResolved, outsideSelection>>

\* the effect runs again for the same node: after an event set forcedRefreshId
\* and forcedDetailRefreshId to it (force), or after a reload replaced the list
RerunSelection(force) ==
  /\ active
  /\ selectedId # ""
  /\ SelectionEffect(selectedId, force, force)
  /\ UNCHANGED <<active, selectedId, selectedIdRef, lastResolved, outsideSelection>>

\* mutant: the callbacks do not look at `cancelled`
PromiseSettles_IgnoresCancelled(f, ok) ==
  /\ f \in fetches
  /\ fetches' = fetches \ {f}
  /\ lastResolved' = [kind |-> f.kind, id |-> f.id, ok |-> ok, cancelled |-> f.run # effectRun]
  /\ contentCache' = IF ok /\ f.kind = "content"
                     THEN MapSet(contentCache, f.id, ObjOf({<<"id", Str(f.id)>>}))
                     ELSE contentCache
  /\ detailCache' = IF ok /\ f.kind = "detail"
                    THEN MapSet(detailCache, f.id,
                                normalizeNodeDetail(ObjOf({<<"id", Str(f.id)>>}), f.id))
                    ELSE detailCache
  /\ contentState' = IF f.kind = "content"
                     THEN Shown(IF ok THEN "ready" ELSE "error", f.id)
                     ELSE contentState
  /\ detailState' = IF f.kind = "detail"
                    THEN Shown(IF ok THEN "ready" ELSE "error", f.id)
                    ELSE detailState
  /\ UNCHANGED <<active, selectedId, selectedIdRef, forcedRefreshId, forcedDetailRefreshId,
                 effectRun, outsideSelection>>

\* the callback of .then (ok) or .catch of promise f
PromiseSettles(f, ok) ==
  /\ f \in fetches
  /\ fetches' = fetches \ {f}
  /\ lastResolved' = [kind |-> f.kind, id |-> f.id, ok |-> ok, cancelled |-> f.run # effectRun]
  /\ contentCache' = IF ok /\ f.kind = "content"
                     THEN MapSet(contentCache, f.id, ObjOf({<<"id", Str(f.id)>>}))
                     ELSE contentCache
  /\ detailCache' = IF ok /\ f.kind = "detail"
                    THEN MapSet(detailCache, f.id,
                                normalizeNodeDetail(ObjOf({<<"id", Str(f.id)>>}), f.id))
                    ELSE detailCache
  /\ contentState' = IF f.run = effectRun /\ f.kind = "content"
                     THEN Shown(IF ok THEN "ready" ELSE "error", f.id)
                     ELSE contentState
  /\ detailState' = IF f.run = effectRun /\ f.kind = "detail"
                    THEN Shown(IF ok THEN "ready" ELSE "error", f.id)
                    ELSE detailState
  /\ UNCHANGED <<active, selectedId, selectedIdRef, forcedRefreshId, forcedDetailRefreshId,
                 effectRun, outsideSelection>>

\* the pane unmounts: the cleanup of the last run
SelectionUnmount ==
  /\ active
  /\ active' = FALSE
  /\ effectRun < MaxRuns
  /\ effectRun' = effectRun + 1
  /\ UNCHANGED <<contentCache, detailCache, selectedId, selectedIdRef, forcedRefreshId,
                 forcedDetailRefreshId, contentState, detailState, fetches, lastResolved,
                 outsideSelection>>

\* the pane shows the list and has not selected a node yet
SelectionInit ==
  /\ StreamIdle
  /\ FnIdle
  /\ ClientIdle
  /\ ListIdle
  /\ FavoritesIdle
  /\ SelectionIdle
  /\ active = TRUE
  /\ loadingRef = FALSE
  /\ notesState = ShownList
  /\ selectedId = ""
  /\ selectedIdRef = ""
  /\ forcedRefreshId = ""
  /\ forcedDetailRefreshId = ""
  /\ stale = FALSE
  /\ awaiting = Undef
  /\ delivered = 0
  /\ handled = NoHandler

SelectionNext ==
  \/ \E id \in NodeIds \cup {""} : SelectNode(id)
  \/ \E force \in BOOLEAN : RerunSelection(force)
  \/ \E f \in fetches, ok \in BOOLEAN : PromiseSettles(f, ok)
  \/ SelectionUnmount

SpecSelection == SelectionInit /\ [][SelectionNext]_vars

\* a state that is not idle is about the selected node
ShowsSelected(state) == state.status # "idle" => state.id = selectedId

\* a response sets a state only for the selected node and only from the run of
\* the effect that is not cancelled
SetBySelected ==
  \A f \in fetches, ok \in BOOLEAN :
    PromiseSettles(f, ok) =>
      /\ contentState' # contentState =>
           /\ contentState'.id = selectedId
           /\ contentState'.status = (IF ok THEN "ready" ELSE "error")
           /\ f = [kind |-> "content", id |-> selectedId, run |-> effectRun]
      /\ detailState' # detailState =>
           /\ detailState'.id = selectedId
           /\ detailState'.status = (IF ok THEN "ready" ELSE "error")
           /\ f = [kind |-> "detail", id |-> selectedId, run |-> effectRun]
      /\ f.run # effectRun => UNCHANGED <<contentState, detailState>>

DeletedHandled(id) ==
  /\ handled.ran = "done"
  /\ Get(handled.event, "type") = Str("node:deleted")
  /\ DeletedId(handled.event) = Str(id)

\* client.getNodeContent(id) / client.getNodeDetail(id) before the event is processed
FetchContentEarly(r, id) == handled = NoHandler /\ GetNodeContent(r, id, FALSE)

FetchDetailEarly(r, id) == handled = NoHandler /\ GetNodeDetail(r, id, FALSE)

EvictedInit ==
  /\ StreamIdle
  /\ FnIdle
  /\ ClientIdle
  /\ ViewIdle
  /\ active = TRUE
  /\ loadingRef = FALSE
  /\ notesState = ShownList
  /\ selectedId = "n2"
  /\ selectedIdRef = "n2"
  /\ forcedRefreshId = ""
  /\ forcedDetailRefreshId = ""
  /\ stale = FALSE
  /\ awaiting = Undef
  /\ delivered = 0
  /\ handled = NoHandler

EvictedNext ==
  \/ \E r \in 1..MaxRequests, id \in NodeIds : FetchContentEarly(r, id)
  \/ \E r \in 1..MaxRequests, id \in NodeIds : FetchDetailEarly(r, id)
  \/ Deliver(EvDeleted)
  \/ \E r \in 1..MaxRequests, status \in PaneStatuses : ResponseHeaders(r, status)
  \/ \E r \in 1..MaxRequests, text \in PaneTexts : PaneResponseBody(r, text)
  \/ \E r \in 1..MaxRequests : TransportFailure(r)
  \/ PaneResume

SpecEvicted == EvictedInit /\ [][EvictedNext]_vars

EvictedAbsent(id) ==
  /\ getCachedNodeContent(id) = Undef
  /\ id \notin DOMAIN detailCache

\* C38: an entry evicted because of a node:deleted event is not re-created by a
\* getNodeContent / getNodeDetail response whose request was already in flight
\* when the event was handled: once the handler has processed node:deleted for
\* id, the content and the detail of id stay absent from the caches until a
\* request issued after that moment succeeds (no request is issued after it here).
C38_EvictedStaysAbsent ==
  [](\A id \in NodeIds : DeletedHandled(id) => EvictedAbsent(id))

\* the same for the step in which the handler processes the event
C38_EvictedWhenHandled ==
  [][\A id \in NodeIds : ~DeletedHandled(id) /\ DeletedHandled(id)' => EvictedAbsent(id)']_vars

\* node:deleted for n1 has been processed, no request is in flight any more, and
\* the content of n1 is in the cache
C38_EntryRecreated ==
  /\ DeletedHandled("n1")
  /\ \A r \in 1..MaxRequests : requests[r].pc = "idle"
  /\ "n1" \in DOMAIN contentCache

(***************************************************************************)
(* The tag favorites.  A tag is a sequence of characters, a favorite is a  *)
(* record [tags, usageCount, lastUsedAt], and the clock of `new Date()` is *)
(* the number of updates applied so far.  An updater that returns null is  *)
(* [ok |-> FALSE]; otherwise it is [ok |-> TRUE, value |-> the new list].  *)
(***************************************************************************)
MAX_FAVORITES == 15

MaxUpdates == 3

\* String.prototype.toLowerCase on the characters the model uses
ToLowerCase(c) == CASE c = "A" -> "a" [] c = "B" -> "b" [] OTHER -> c

RECURSIVE TrimStart(_)
TrimStart(s) == IF s # <<>> /\ Head(s) = " " THEN TrimStart(Tail(s)) ELSE s

RECURSIVE TrimEnd(_)
TrimEnd(s) ==
  IF s # <<>> /\ s[Len(s)] = " " THEN TrimEnd(SubSeq(s, 1, Len(s) - 1)) ELSE s

\* String.prototype.trim
Trim(s) == TrimEnd(TrimStart(s))

\* name.trim().replace(/^#/, '').toLowerCase()
normalizeTagName(name) ==
  LET trimmed == Trim(name)
      bare == IF trimmed # <<>> /\ Head(trimmed) = "#" THEN Tail(trimmed) ELSE trimmed
  IN  [i \in 1..Len(bare) |-> ToLowerCase(bare[i])]

RECURSIVE DedupeFrom(_, _)
DedupeFrom(tags, seen) ==
  IF tags = <<>> THEN <<>>
  ELSE LET trimmed == Trim(Head(tags))
           normalized == normalizeTagName(trimmed)
       IN  IF normalized = <<>> \/ normalized \in seen
           THEN DedupeFrom(Tail(tags), seen)
           ELSE <<trimmed>> \o DedupeFrom(Tail(tags), seen \cup {normalized})

dedupeTagsCaseInsensitive(tags) == DedupeFrom(tags, {})

areTagArraysEqual(a, b) ==
  /\ Len(a) = Len(b)
  /\ \A i \in 1..Len(a) : normalizeTagName(a[i]) = normalizeTagName(b[i])

\* tags.map((tag) => normalizeTagName(tag)).join('|')
RECURSIVE favoriteKey(_)
favoriteKey(tags) ==
  IF tags = <<>> THEN <<>>
  ELSE IF Len(tags) = 1 THEN normalizeTagName(tags[1])
       ELSE normalizeTagName(tags[1]) \o <<"|">> \o favoriteKey(Tail(tags))

Favorite(tags, usageCount, lastUsedAt) ==
  [tags |-> tags, usageCount |-> usageCount, lastUsedAt |-> lastUsedAt]

NoChange == [ok |-> FALSE, value |-> <<>>]

Updated(list) == [ok |-> TRUE, value |-> list]

truncateFavorites(list) ==
  IF Len(list) <= MAX_FAVORITES THEN list ELSE SubSeq(list, 1, MAX_FAVORITES)

\* current.slice(0, index).concat(current.slice(index + 1)), index counted from 1
Without(current, index) ==
  SubSeq(current, 1, index - 1) \o SubSeq(current, index + 1, Len(current))

upsertFavoriteRecords(current, tags, onlyBump, now) ==
  LET key == favoriteKey(tags)
      found == {i \in 1..Len(current) : favoriteKey(current[i].tags) = key}
  IN  IF found # {}
      THEN LET existingIndex == CHOOSE i \in found : \A j \in found : i <= j
           IN  Updated(truncateFavorites(
                 <<Favorite(tags, current[existingIndex].usageCount + 1, now)>>
                 \o Without(current, existingIndex)))
      ELSE IF onlyBump
           THEN NoChange
           ELSE Updated(truncateFavorites(<<Favorite(tags, 1, now)>> \o current))

\* index is the index of the code, counted from 0
removeFavoriteAtIndex(current, index) ==
  IF index < 0 \/ index >= Len(current)
  THEN NoChange
  ELSE Updated(Without(current, index + 1))

\* favorite.tags.map((tag) => normalizeTagName(tag) === normalizedOld ? cleanedNew : tag)
Renamed(tags, normalizedOld, cleanedNew) ==
  [i \in 1..Len(tags) |->
     IF normalizeTagName(tags[i]) = normalizedOld THEN cleanedNew ELSE tags[i]]

\* the values of the Map `merged`, in the order of insertion, after the loop
\* has gone through `rest`
RECURSIVE Merge(_, _, _, _)
Merge(merged, rest, normalizedOld, cleanedNew) ==
  IF rest = <<>> THEN merged
  ELSE LET favorite == Head(rest)
           normalizedTags ==
             dedupeTagsCaseInsensitive(Renamed(favorite.tags, normalizedOld, cleanedNew))
           key == favoriteKey(normalizedTags)
           at == {i \in 1..Len(merged) : favoriteKey(merged[i].tags) = key}
       IN  IF normalizedTags = <<>>
           THEN Merge(merged, Tail(rest), normalizedOld, cleanedNew)
           ELSE IF at # {}
                THEN LET i == CHOOSE j \in at : TRUE
                         existing == merged[i]
                     IN  Merge([merged EXCEPT ![i] =
                                  Favorite(normalizedTags,
                                           existing.usageCount + favorite.usageCount,
                                           IF existing.lastUsedAt > favorite.lastUsedAt
                                           THEN existing.lastUsedAt
                                           ELSE favorite.lastUsedAt)],
                               Tail(rest), normalizedOld, cleanedNew)
                ELSE Merge(Append(merged, Favorite(normalizedTags, favorite.usageCount,
                                                   favorite.lastUsedAt)),
                           Tail(rest), normalizedOld, cleanedNew)

\* the comparator of the sort: a goes before b
GoesBefore(a, b) ==
  \/ a.lastUsedAt > b.lastUsedAt
  \/ a.lastUsedAt = b.lastUsedAt /\ a.usageCount > b.usageCount

\* Array.prototype.sort, which is stable: item goes behind the items it does
\* not go before
RECURSIVE InsertSorted(_, _)
InsertSorted(sorted, item) ==
  IF sorted = <<>> THEN <<item>>
  ELSE IF GoesBefore(item, Head(sorted))
       THEN <<item>> \o sorted
       ELSE <<Head(sorted)>> \o InsertSorted(Tail(sorted), item)

RECURSIVE SortFavorites(_)
SortFavorites(list) ==
  IF list = <<>> THEN <<>>
  ELSE InsertSorted(SortFavorites(SubSeq(list, 1, Len(list) - 1)), list[Len(list)])

renameFavoritesForTag(current, oldName, newName) ==
  LET normalizedOld == normalizeTagName(oldName)
      cleanedNew == Trim(newName)
      changed == \E i \in 1..Len(current) :
                   ~areTagArraysEqual(current[i].tags,
                                      Renamed(current[i].tags, normalizedOld, cleanedNew))
  IN  IF cleanedNew = <<>> \/ normalizedOld = normalizeTagName(cleanedNew)
      THEN NoChange
      ELSE IF ~changed
           THEN NoChange
           ELSE Updated(truncateFavorites(
                  SortFavorites(Merge(<<>>, current, normalizedOld, cleanedNew))))

\* parsed.map((entry) => normalizeFavorite(entry)).filter(...): an entry of the
\* file that is no record with tags is dropped
RECURSIVE loadTagFavorites(_)
loadTagFavorites(contents) ==
  IF contents = <<>> THEN <<>>
  ELSE IF Head(contents) = Favorite(<<>>, 0, 0)
       THEN loadTagFavorites(Tail(contents))
       ELSE <<Head(contents)>> \o loadTagFavorites(Tail(contents))

Letters ==
  <<"a", "b", "c", "d", "e", "f", "g", "h", "i", "j", "k", "l", "m", "n", "o", "p", "q">>

\* a favorites file of n records, each of one tag
DiskFile(n) == [i \in 1..n |-> Favorite(<<<<Letters[i]>>>>, 1, 0)]

\* the files the pane may find: none or an empty one, short ones (one with an
\* entry without tags and a favorite of two tags), a full one, and one that
\* holds more records than the pane writes
DiskFiles ==
  {DiskFile(0), DiskFile(2),
   <<Favorite(<<>>, 0, 0), Favorite(<<<<"a">>, <<"b">>>>, 2, 0), Favorite(<<<<"b">>>>, 1, 0)>>,
   DiskFile(MAX_FAVORITES), DiskFile(MAX_FAVORITES + 2)}

\* the tag lists the filters of the pane take
TagLists ==
  {<<<<"a">>>>, <<<<"#", "A">>>>, <<<<"z">>>>, <<<<" ">>>>, <<<<"a">>, <<" ", "a">>, <<"z">>>>}

RemoveIndexes == {-1, 0, 1, MAX_FAVORITES + 1, MAX_FAVORITES + 2}

\* the pairs old, new of the tag:renamed events
Renames ==
  {<<<<"a">>, <<"b">>>>, <<<<"a">>, <<" ">>>>, <<<<"a">>, <<"A">>>>, <<<<"y">>, <<"x">>>>,
   <<<<"#", "B">>, <<"x">>>>}

\* what a step of the favorites leaves alone
outsideFavorites ==
  <<streamVars, fnVars, clientVars, paneVars, listVars, selectionVars>>

\* applyFavoriteUpdate: the updater, favoritesRef, persistFavorites, which
\* starts saveTagFavorites and does not wait for it, and the new state
applyFavoriteUpdate(updated) ==
  /\ updates < MaxUpdates
  /\ IF ~updated.ok
     THEN UNCHANGED <<favorites, writes, updates>>
     ELSE /\ favorites' = updated.value
          /\ writes' = writes \cup {[n |-> updates + 1, favorites |-> updated.value,
                                     pc |-> "mkdir"]}
          /\ updates' = updates + 1
  /\ UNCHANGED <<file, outsideFavorites>>

recordFavorite(tags, onlyBump) ==
  /\ dedupeTagsCaseInsensitive(tags) # <<>>
  /\ applyFavoriteUpdate(upsertFavoriteRecords(favorites, dedupeTagsCaseInsensitive(tags),
                                               onlyBump, updates + 1))

\* the key that removes the favorite at favoriteIndex, when favorites.length > 0
removeFavorite(index) ==
  /\ favorites # <<>>
  /\ applyFavoriteUpdate(removeFavoriteAtIndex(favorites, index))

\* tag:renamed: if (oldName && newName) renameFavorites(oldName, newName)
renameFavorites(oldName, newName) ==
  /\ oldName # <<>>
  /\ newName # <<>>
  /\ applyFavoriteUpdate(renameFavoritesForTag(favorites, oldName, newName))

\* saveTagFavorites: fs.mkdir has resolved; JSON.stringify, fs.writeFile begins
MkdirDone(w) ==
  /\ w \in writes
  /\ w.pc = "mkdir"
  /\ writes' = (writes \ {w}) \cup {[w EXCEPT !.pc = "writeFile"]}
  /\ UNCHANGED <<favorites, file, updates, outsideFavorites>>

\* saveTagFavorites: fs.writeFile has resolved, the file holds the payload
WriteFileDone(w) ==
  /\ w \in writes
  /\ w.pc = "writeFile"
  /\ file' = w.favorites
  /\ writes' = writes \ {w}
  /\ UNCHANGED <<favorites, updates, outsideFavorites>>

\* the pane once loadTagFavorites has resolved
FavoritesInit ==
  /\ StreamIdle
  /\ FnIdle
  /\ ClientIdle
  /\ ListIdle
  /\ SelectionIdle
  /\ active = TRUE
  /\ loadingRef = FALSE
  /\ notesState = [status |-> "loading", response |-> Undef]
  /\ selectedId = ""
  /\ selectedIdRef = ""
  /\ forcedRefreshId = ""
  /\ forcedDetailRefreshId = ""
  /\ stale = FALSE
  /\ awaiting = Undef
  /\ delivered = 0
  /\ handled = NoHandler
  /\ file \in DiskFiles
  /\ favorites = loadTagFavorites(file)
  /\ writes = {}
  /\ updates = 0

FavoritesNext ==
  \/ \E tags \in TagLists, onlyBump \in BOOLEAN : recordFavorite(tags, onlyBump)
  \/ \E index \in RemoveIndexes : removeFavorite(index)
  \/ \E names \in Renames : renameFavorites(names[1], names[2])
  \/ \E w \in writes : MkdirDone(w)
  \/ \E w \in writes : WriteFileDone(w)

SpecFavorites == FavoritesInit /\ [][FavoritesNext]_vars

\* C39: after any sequence of favorite updates, once every pending
\* saveTagFavorites write has completed, the favorites file holds the most
\* recent in-memory favorites list: a write started by an earlier update never
\* ends up overwriting the write of a later one.
C39_FileHoldsLatest == [](updates > 0 /\ writes = {} => file = favorites)

\* the write of the first update was the last to reach the file
C39_EarlierWriteLast ==
  /\ updates >= 2
  /\ writes = {}
  /\ file # favorites

\* the file holds what some update handed to saveTagFavorites: a write replaces
\* the file with its own list
C39_WritesOwnList ==
  [][\A w \in writes : WriteFileDone(w) => file' = w.favorites /\ Len(file') <= Len(w.favorites)]_vars

AtMostMax(list) == Len(list) <= MAX_FAVORITES

\* C40: after any sequence of favorite updates (record, bump, remove at index,
\* rename) starting from the favorites loaded from disk, the in-memory list and
\* the list handed to saveTagFavorites never hold more than MAX_FAVORITES = 15
\* records.
C40_AtMostMaxFavorites ==
  [](updates > 0 => AtMostMax(favorites) /\ \A w \in writes : AtMostMax(w.favorites))

\* an update of a list within the bound gives a list within the bound
C40_BoundKept ==
  [][AtMostMax(favorites) =>
       /\ AtMostMax(favorites')
       /\ \A w \in writes' : updates' # updates /\ w.n = updates' => AtMostMax(w.favorites)]_vars

\* a favorite was removed from the 17 loaded from the file: 16 are in memory and
\* 16 were handed to saveTagFavorites
C40_SixteenSaved ==
  /\ updates = 1
  /\ Len(favorites) = MAX_FAVORITES + 1
  /\ \E w \in writes : w.favorites = favorites

====
